---- MODULE Spec2Model ----
(***************************************************************************)
(* Sensors multi-HAL proxy (HalProxy): the pending-write event pipeline,   *)
(* the shared wake lock and the two background threads, as a state machine *)
(* of the producer (sub-HAL callback) threads, the pending-writes thread,  *)
(* the wake-lock thread and the framework (client) thread.                 *)
(* ScopedWakelock.cpp is not among the sources: a posted vector carries a  *)
(* locked ScopedWakelock exactly when it holds a wake-up event (the        *)
(* ALOG_ASSERTs of postEvents), and the count the ScopedWakelock object    *)
(* itself adds and removes is not part of this model.                      *)
(***************************************************************************)
EXTENDS Integers, Sequences, FiniteSets, TLC

(* ------------------------------ bounds --------------------------------- *)
\* number of sub-HAL callback threads that post events
NumProducers == 1
\* total number of postEvents calls explored
MaxPosts == 2

\* sub-HAL threads inside the dynamic-sensor callbacks at a time
NumCallbackThreads == 2

\* dynamic-sensor callbacks explored in one behaviour
MaxCallbacks == 3
\* longest event vector a sub-HAL posts
MaxBatch == 2
\* quantum count of the event FMQ (capacity of the output channel)
QuantumCount == 1
\* capacity of the wake-lock FMQ
WakeLockQuantumCount == 1
\* scaled stand-in for kMaxSizePendingWriteEventsQueue (declared in HalProxy.h)
kMaxSizePendingWriteEventsQueue == 2
\* scaled stand-in for kWakelockTimeoutNs (declared in ScopedWakelock.h), in ticks
kWakelockTimeoutNs == 0
\* last value of the clock
MaxTime == 1
\* number of initialize calls explored (the first one included)
MaxInits == 2

\* largest delta of a wake-lock call made from outside the pipeline
MaxDelta == 2
\* last value of the clock while those calls are explored
MaxCoordTime == 2
\* number of successful acquisitions explored
MaxAcquires == 3

\* static constexpr int32_t kBitsAfterSubHalIndex
kBitsAfterSubHalIndex == 24
\* width of int32_t sensor handles
Int32Bits == 32
\* largest of the small local handles explored (the largest 24-bit one is added)
MaxLocalHandle == 2

\* largest number of sub-HALs explored
MaxSubHals == 2

\* longest sensor list a sub-HAL reports
MaxSensors == 2

\* a number of sub-HALs whose highest index has the top bit of the sub-HAL byte set
LargeSubHalCount == 129

\* size_t arithmetic wraps; the width is scaled down from 64 bits
SizeTModulus == 2 ^ 16

Producers == 1 .. NumProducers

\* sub-HAL threads that call the dynamic-sensor callbacks
CallbackThreads == 1 .. NumCallbackThreads

\* a callback thread outside the callbacks
IdleCallback == [ pc |-> "idle", op |-> "none", seq |-> 0, forwarded |-> << >> ]

\* deltas of the callers in the sources are positive: 1 per ScopedWakelock, the number
\* of wake-up events (> 0 when the wake lock is locked) per posted vector
Deltas == 1 .. MaxDelta

\* timeoutStart arguments: -1 is the default argument of the decrement
TimeoutStarts == { -1 } \cup (0 .. MaxCoordTime)

VARIABLES
    mThreadsRun,                   \* std::atomic_bool mThreadsRun
    mEventQueue,                   \* contents of the event FMQ (output channel)
    mWakeLockQueue,                \* contents of the wake-lock FMQ (acknowledgements)
    mPendingWriteEventsQueue,      \* queue of <<events, numWakeupEvents>>
    mSizePendingWriteEventsQueue,
    mMostEventsObservedPendingWriteEventsQueue,
    mWakelockRefCount,
    mWakelockTimeoutStartTime,
    mWakelockTimeoutResetTime,
    wakeLockHeld,                  \* the OS wake lock kWakelockName
    now,                           \* getTimeNow()
    mEventQueueWriteMutex,         \* owner of the mutex: "none", "pw" or "prod"
    mWakelockMutex,                \* owner of the recursive mutex, or "none"
    pwPc,                          \* position of handlePendingWrites
    wlPc,                          \* position of handleWakelocks
    wlLocal,                       \* locals of handleWakelocks: deadline, success, numWakeLocksProcessed
    prod,                          \* per producer thread: position and locals of postEvents
    clPc,                          \* position of the client thread in initialize / ~HalProxy
    unacked,                       \* wake-up events the framework has read and not yet acknowledged
    hist,                          \* history: posts counted, id of the last event written, initialize calls, timeout fired
    wlCall,                        \* the last wake-lock call made from outside the pipeline, and its result
    wlGhost,                       \* history of those calls: acquisitions not yet released, OS calls
    hnd,                           \* a sensor handle on its way through setSubHalIndex and back
    mSubHalList,                   \* the sub-HALs, by index from 0: what each one reports and supports
    mSensors,                      \* std::map sensorHandle -> SensorInfo
    mDynamicSensors,               \* std::map sensorHandle -> SensorInfo of the dynamic sensors
    mDirectChannelSubHal,          \* index of the sub-HAL, -1 for nullptr
    mCurrentOperationMode,
    subHalMode,                    \* the operation mode each sub-HAL is in
    subHalCalls,                   \* the calls into sub-HALs made by the last client call
    ret,                           \* the last client call and its result
    cb                             \* sub-HAL callback threads inside the dynamic-sensor callbacks, and the history of their updates and notifications

vars == << mThreadsRun, mEventQueue, mWakeLockQueue, mPendingWriteEventsQueue,
           mSizePendingWriteEventsQueue, mMostEventsObservedPendingWriteEventsQueue,
           mWakelockRefCount, mWakelockTimeoutStartTime, mWakelockTimeoutResetTime,
           wakeLockHeld, now, mEventQueueWriteMutex, mWakelockMutex, pwPc, wlPc,
           wlLocal, prod, clPc, unacked, hist, wlCall, wlGhost, hnd, mSubHalList,
           mSensors, mDynamicSensors,
            mDirectChannelSubHal, mCurrentOperationMode, subHalMode,
           subHalCalls, ret, cb >>

\* handles, sub-HAL list, sensor list and operation mode
proxyVars ==
    << hnd, mSubHalList, mSensors, mDynamicSensors,
        mDirectChannelSubHal, mCurrentOperationMode,
       subHalMode, subHalCalls, ret >>

\* what the event pipeline leaves alone: the records of the calls made from outside
\* it, and proxyVars
extVars == << wlCall, wlGhost, proxyVars, cb >>

(* ------------------------------ helpers -------------------------------- *)
Min(a, b) == IF a <= b THEN a ELSE b

Max(a, b) == IF a >= b THEN a ELSE b

\* sequences of wake flags a sub-HAL may post: every vector up to MaxBatch events
EventVectors == UNION { [1 .. n -> BOOLEAN] : n \in 0 .. MaxBatch }

RECURSIVE CountWake(_, _)
\* number of events among the first n of evs that belong to a WAKE_UP sensor
CountWake(evs, n) ==
    IF n = 0 THEN 0
    ELSE CountWake(evs, n - 1) + (IF evs[n].wake THEN 1 ELSE 0)

RECURSIVE SumLen(_)
SumLen(q) == IF q = << >> THEN 0 ELSE Len(Head(q).events) + SumLen(Tail(q))

RECURSIVE WakeInQueue(_)
WakeInQueue(q) ==
    IF q = << >> THEN 0
    ELSE CountWake(Head(q).events, Len(Head(q).events)) + WakeInQueue(Tail(q))

(* ------------------------- wake-lock coordinator ------------------------ *)
\* The coordinator as the calls below read and change it; ok is the return value of
\* the last increment, notify tells whether it ran mWakelockCV.notify_one().
WakelockState ==
    [ refCount |-> mWakelockRefCount, held |-> wakeLockHeld,
      start |-> mWakelockTimeoutStartTime, reset |-> mWakelockTimeoutResetTime,
      ok |-> TRUE, notify |-> FALSE ]

\* mutant of IncrementRefCountAndMaybeAcquireWakelock: mThreadsRun is not tested
IncrementWhileStopped(w, delta) ==
    [ w EXCEPT !.refCount = @ + delta,
               !.held = IF w.refCount = 0 THEN TRUE ELSE @,
               !.start = now,
               !.ok = TRUE,
               !.notify = (w.refCount = 0) ]

\* mutant of IncrementRefCountAndMaybeAcquireWakelock: acquire_wake_lock is called
\* whatever the count is
IncrementAlwaysAcquiring(w, delta) ==
    IF ~mThreadsRun
    THEN [ w EXCEPT !.ok = FALSE ]
    ELSE [ w EXCEPT !.refCount = @ + delta,
                    !.held = TRUE,
                    !.start = now,
                    !.ok = TRUE,
                    !.notify = TRUE ]

\* incrementRefCountAndMaybeAcquireWakelock(delta) in state w
IncrementRefCountAndMaybeAcquireWakelock(w, delta) ==
    IF ~mThreadsRun
    THEN [ w EXCEPT !.ok = FALSE ]
    ELSE [ w EXCEPT !.refCount = @ + delta,
                    !.held = IF w.refCount = 0 THEN TRUE ELSE @,
                    !.start = now,
                    !.ok = TRUE,
                    !.notify = (w.refCount = 0) ]

\* mutant of HeldAfterDecrement: the count reaches 0 and the OS lock is kept
HeldAfterDecrementNoRelease(held, rc) == held

\* if (mWakelockRefCount == 0) release_wake_lock(kWakelockName), rc being the new count
HeldAfterDecrement(held, rc) == IF rc = 0 THEN FALSE ELSE held

\* mutant of DecrementRefCountAndMaybeReleaseWakelock: no comparison with
\* mWakelockTimeoutResetTime
DecrementIgnoringResetTime(w, delta, timeoutStart) ==
    IF ~mThreadsRun THEN w
    ELSE IF w.refCount = 0 THEN w
    ELSE LET rc == w.refCount - Min(w.refCount, delta)
         IN  [ w EXCEPT !.refCount = rc, !.held = HeldAfterDecrement(w.held, rc) ]

\* mutant of DecrementRefCountAndMaybeReleaseWakelock: delta is subtracted without
\* std::min, in size_t arithmetic
DecrementWithoutMin(w, delta, timeoutStart) ==
    LET ts == IF timeoutStart = -1 THEN w.reset ELSE timeoutStart
    IN  IF ~mThreadsRun THEN w
        ELSE IF w.refCount = 0 \/ ts < w.reset THEN w
        ELSE LET rc == (w.refCount - delta) % SizeTModulus
             IN  [ w EXCEPT !.refCount = rc, !.held = HeldAfterDecrement(w.held, rc) ]

\* mutant of DecrementRefCountAndMaybeReleaseWakelock: the count drops by 1 whatever
\* delta is
DecrementByOne(w, delta, timeoutStart) ==
    LET ts == IF timeoutStart = -1 THEN w.reset ELSE timeoutStart
    IN  IF ~mThreadsRun THEN w
        ELSE IF w.refCount = 0 \/ ts < w.reset THEN w
        ELSE LET rc == w.refCount - 1
             IN  [ w EXCEPT !.refCount = rc, !.held = HeldAfterDecrement(w.held, rc) ]

\* decrementRefCountAndMaybeReleaseWakelock(delta, timeoutStart) in state w;
\* -1 is the default argument
DecrementRefCountAndMaybeReleaseWakelock(w, delta, timeoutStart) ==
    LET ts == IF timeoutStart = -1 THEN w.reset ELSE timeoutStart
    IN  IF ~mThreadsRun THEN w
        ELSE IF w.refCount = 0 \/ ts < w.reset THEN w
        ELSE LET rc == w.refCount - Min(w.refCount, delta)
             IN  [ w EXCEPT !.refCount = rc, !.held = HeldAfterDecrement(w.held, rc) ]

\* resetSharedWakelock() in state w
ResetSharedWakelock(w) ==
    [ DecrementRefCountAndMaybeReleaseWakelock(w, w.refCount, -1) EXCEPT !.reset = now ]

\* mutant of SharedWakelockDidTimeout: the duration is always found too long
SharedWakelockAlwaysTimedOut(w) == TRUE

\* mutant of SharedWakelockDidTimeout: the duration is never found too long
SharedWakelockNeverTimesOut(w) == FALSE

\* sharedWakelockDidTimeout in state w
SharedWakelockDidTimeout(w) == now - w.start > kWakelockTimeoutNs

\* *timeLeft, kept as the absolute time at which readBlocking gives up
TimeLeftDeadline(w) == now + (kWakelockTimeoutNs - (now - w.start))

\* writes the coordinator fields from the state w
SetWakelock(w) ==
    /\ mWakelockRefCount' = w.refCount
    /\ wakeLockHeld' = w.held
    /\ mWakelockTimeoutStartTime' = w.start
    /\ mWakelockTimeoutResetTime' = w.reset

\* mutant of NotifyOne: the notification is lost
NotifyLost(pc) == pc

\* std::condition_variable::notify_one: wakes the thread only if it is blocked in wait
NotifyOne(pc) == IF pc = "waiting" THEN "woken" ELSE pc

(* ------------------------------- Init ---------------------------------- *)
\* gen: the number of initialize calls that had returned when the post began (history)
IdleProducer ==
    [ pc |-> "idle", events |-> << >>, numWakeupEvents |-> 0, counted |-> FALSE,
      gen |-> 0 ]

NoWlLocal == [ deadline |-> 0, success |-> FALSE, numWakeLocksProcessed |-> 0 ]

\* no wake-lock call from outside the pipeline yet
NoCall == [ op |-> "none", delta |-> 0, timeoutStart |-> -1, ok |-> FALSE ]

\* outstanding[d]: acquisitions by d not yet released by d; acquired: successful
\* acquisitions; osAcquires, osReleases: calls of acquire_wake_lock and
\* release_wake_lock; clean: every release so far was made with the threads running,
\* matched an outstanding acquisition and carried no stale timestamp
NoGhost ==
    [ outstanding |-> [ d \in Deltas |-> 0 ], acquired |-> 0,
      osAcquires |-> 0, osReleases |-> 0, clean |-> TRUE ]

\* no handle under way
NoHandle ==
    [ pc |-> "none", sensorHandle |-> 0, subHalIndex |-> 0, stamped |-> 0,
      extracted |-> 0, cleared |-> 0 ]

\* no client call made yet
NoRet ==
    [ op |-> "none", sensorHandle |-> 0, sensorType |-> "ADDITIONAL_INFO",
      mode |-> "NORMAL", result |-> "OK",
      \* of a dynamic-sensor notification: the vector and the index it came with, what
      \* went on to the framework's callback, and mDynamicSensors before a connection
      \* (history)
      args |-> << >>, subHalIndex |-> 0, forwarded |-> << >>, before |-> << >>,
      \* of processEvents and countNumWakeupEvents: the count returned
      numWakeupEvents |-> 0 ]

\* The proxy after construction: no FMQ yet, no thread started, no callback handed out.
\* mThreadsRun gets its initial value in HalProxy.h, which is not among the sources.
\* no sub-HAL thread is inside a dynamic-sensor callback, none has been made
NoCallbacks ==
    [ threads |-> [ t \in CallbackThreads |-> IdleCallback ], applied |-> 0,
      upstream |-> << >> ]

CoreInit ==
    /\ mThreadsRun \in BOOLEAN
    /\ mEventQueue = << >>
    /\ mWakeLockQueue = << >>
    /\ mPendingWriteEventsQueue = << >>
    /\ mSizePendingWriteEventsQueue = 0
    /\ mMostEventsObservedPendingWriteEventsQueue = 0
    /\ mWakelockRefCount = 0
    /\ mWakelockTimeoutStartTime = 0
    /\ mWakelockTimeoutResetTime = 0
    /\ wakeLockHeld = FALSE
    /\ now = 0
    /\ mEventQueueWriteMutex = "none"
    /\ mWakelockMutex = "none"
    /\ pwPc = "off"
    /\ wlPc = "off"
    /\ wlLocal = NoWlLocal
    /\ prod = [ p \in Producers |-> IdleProducer ]
    /\ clPc = "idle"
    /\ unacked = 0
    /\ hist = [ posts |-> 0, lastId |-> 0, inits |-> 0, timeoutFired |-> FALSE ]
    /\ wlCall = NoCall
    /\ wlGhost = NoGhost
    /\ cb = NoCallbacks

\* proxyVars while the specification at hand does not use them
ProxyUnused ==
    /\ hnd = NoHandle
    /\ mSubHalList = << >>
    /\ mSensors = << >>
    /\ mDynamicSensors = << >>
    /\ mDirectChannelSubHal = -1
    /\ mCurrentOperationMode = "NORMAL"
    /\ subHalMode = << >>
    /\ subHalCalls = << >>
    /\ ret = NoRet

Init == CoreInit /\ ProxyUnused

(* --------------------- producer: HalProxyCallback::postEvents ----------- *)
\* processEvents: the events as posted, with the wake-up flag of their sensor; idx is
\* the position in the posted vector, id the position in the post order (set at the lock)
ProcessEvents(flags) ==
    [ i \in 1 .. Len(flags) |-> [ id |-> 0, idx |-> i, wake |-> flags[i] ] ]

\* posts that passed the areThreadsRunning check and have not taken the lock yet
PostsInFlight == Cardinality({ p \in Producers : prod[p].pc = "lock" })

\* postEvents up to the call of postEventsToMessageQueue:
\* if (events.empty() || !mHalProxy->areThreadsRunning()) return;
PostEvents(p, flags) ==
    /\ prod[p].pc = "idle"
    /\ hist.inits >= 1
    /\ clPc # "destroyed"
    /\ hist.posts + PostsInFlight < MaxPosts
    /\ IF flags = << >> \/ ~mThreadsRun
       THEN prod' = prod
       ELSE prod' = [ prod EXCEPT ![p] =
                [ pc |-> "lock", events |-> ProcessEvents(flags),
                  numWakeupEvents |-> CountWake(ProcessEvents(flags), Len(flags)),
                  counted |-> FALSE, gen |-> hist.inits ] ]
    /\ UNCHANGED << mThreadsRun, mEventQueue, mWakeLockQueue, mPendingWriteEventsQueue,
                    mSizePendingWriteEventsQueue,
                    mMostEventsObservedPendingWriteEventsQueue, mWakelockRefCount,
                    mWakelockTimeoutStartTime, mWakelockTimeoutResetTime, wakeLockHeld,
                    now, mEventQueueWriteMutex, mWakelockMutex, pwPc, wlPc, wlLocal,
                    clPc, unacked, hist >>
    /\ UNCHANGED extVars

\* wakelock.isLocked(): a sub-HAL locks the scoped wake lock exactly for wake-up events
\* (the two ALOG_ASSERTs of postEvents)
WakelockIsLocked(numWakeupEvents) == numWakeupEvents > 0

\* the wake-lock call of postEventsToMessageQueue:
\* if (wakelock.isLocked()) incrementRefCountAndMaybeAcquireWakelock(numWakeupEvents)
PostIncrementResult(numWakeupEvents) ==
    IF WakelockIsLocked(numWakeupEvents)
    THEN IncrementRefCountAndMaybeAcquireWakelock(WakelockState, numWakeupEvents)
    ELSE [ WakelockState EXCEPT !.ok = FALSE ]

\* postEventsToMessageQueue, first part: std::lock_guard lock(mEventQueueWriteMutex),
\* then the wake-lock call (which takes mWakelockMutex for its duration).
\* The events get their position in the post order when the lock is taken.
PostLock(p) ==
    /\ prod[p].pc = "lock"
    /\ mEventQueueWriteMutex = "none"
    /\ mWakelockMutex = "none"
    /\ mEventQueueWriteMutex' = "prod"
    /\ LET r == PostIncrementResult(prod[p].numWakeupEvents)
       IN  /\ SetWakelock(r)
           /\ wlPc' = IF r.notify THEN NotifyOne(wlPc) ELSE wlPc
           /\ prod' = [ prod EXCEPT ![p].pc = "write", ![p].counted = r.ok,
                            ![p].events = [ i \in 1 .. Len(@) |->
                                [ @[i] EXCEPT !.id = hist.posts * MaxBatch + i ] ] ]
    /\ hist' = [ hist EXCEPT !.posts = @ + 1 ]
    /\ UNCHANGED << mThreadsRun, mEventQueue, mWakeLockQueue, mPendingWriteEventsQueue,
                    mSizePendingWriteEventsQueue,
                    mMostEventsObservedPendingWriteEventsQueue,
                    now, mWakelockMutex, pwPc, wlLocal, clPc, unacked >>
    /\ UNCHANGED extVars

\* mEventQueue->availableToWrite()
AvailableToWrite == QuantumCount - Len(mEventQueue)

\* mutant of NumToWriteDirect: post writes at once even while a batch is pending
NumToWriteDirectIgnoringPending(pending, numEvents, available) ==
    Min(numEvents, available)

\* the number of events post writes at once: none while a batch is pending
NumToWriteDirect(pending, numEvents, available) ==
    IF pending = << >> THEN Min(numEvents, available) ELSE 0

\* mutant of EventsLeft: the copy starts at events.begin()
EventsLeftFromBegin(events, numToWrite) == events

\* std::vector<Event> eventsLeft(events.begin() + numToWrite, events.end())
EventsLeft(events, numToWrite) == SubSeq(events, numToWrite + 1, Len(events))

\* numToWrite < events.size() && mSizePendingWriteEventsQueue + numLeft <= kMax...,
\* the sum being computed in size_t
FitsPendingQueue(numEvents, numToWrite) ==
    /\ numToWrite < numEvents
    /\ (mSizePendingWriteEventsQueue + (numEvents - numToWrite)) % SizeTModulus
           <= kMaxSizePendingWriteEventsQueue

\* id of the last event of a written sequence (the history of the output channel)
LastWritten(written) == IF written = << >> THEN hist.lastId ELSE written[Len(written)].id

\* postEventsToMessageQueue, second part, still under the lock: write what fits when
\* nothing is pending, buffer the rest if it fits, notify the pending-writes thread
PostWrite(p) ==
    /\ prod[p].pc = "write"
    /\ LET events == prod[p].events
           numToWrite == NumToWriteDirect(mPendingWriteEventsQueue, Len(events),
                                          AvailableToWrite)
           numLeft == Len(events) - numToWrite
       IN  /\ mEventQueue' = mEventQueue \o SubSeq(events, 1, numToWrite)
           /\ hist' = [ hist EXCEPT !.lastId = LastWritten(SubSeq(events, 1, numToWrite)) ]
           /\ IF FitsPendingQueue(Len(events), numToWrite)
              THEN /\ mPendingWriteEventsQueue' = Append(mPendingWriteEventsQueue,
                         [ events |-> EventsLeft(events, numToWrite),
                           numWakeupEvents |-> prod[p].numWakeupEvents ])
                   /\ mSizePendingWriteEventsQueue' =
                         (mSizePendingWriteEventsQueue + numLeft) % SizeTModulus
                   /\ mMostEventsObservedPendingWriteEventsQueue' =
                         Max(mMostEventsObservedPendingWriteEventsQueue,
                             mSizePendingWriteEventsQueue')
                   /\ pwPc' = NotifyOne(pwPc)
              ELSE UNCHANGED << mPendingWriteEventsQueue, mSizePendingWriteEventsQueue,
                                mMostEventsObservedPendingWriteEventsQueue, pwPc >>
    /\ mEventQueueWriteMutex' = "none"
    /\ prod' = [ prod EXCEPT ![p] = IdleProducer ]
    /\ UNCHANGED << mThreadsRun, mWakeLockQueue, mWakelockRefCount,
                    mWakelockTimeoutStartTime, mWakelockTimeoutResetTime, wakeLockHeld,
                    now, mWakelockMutex, wlPc, wlLocal, clPc, unacked >>
    /\ UNCHANGED extVars

(* ------------- pending-writes thread: HalProxy::handlePendingWrites ----- *)
\* numToWrite = std::min(pendingWriteEvents.size(), eventQueueSize)
NumToWritePending(batch) == Min(Len(batch.events), QuantumCount)

\* the argument of decrementRefCountAndMaybeReleaseWakelock after a failed writeBlocking
\* (0 stands for no call: both leave the count alone)
WakeupsReleasedOnTimeout(batch) ==
    IF batch.numWakeupEvents > 0
    THEN IF Len(batch.events) > QuantumCount
         THEN CountWake(batch.events, QuantumCount)
         ELSE batch.numWakeupEvents
    ELSE 0

\* mutant of AfterDrain: the front batch is popped whatever its length
AfterDrainPopping(q) == Tail(q)

\* the pending queue after the front batch lost its first eventQueueSize events
AfterDrain(q) ==
    IF Len(Head(q).events) > QuantumCount
    THEN << [ Head(q) EXCEPT !.events = SubSeq(@, QuantumCount + 1, Len(@)) ] >> \o Tail(q)
    ELSE Tail(q)

\* mutant of PwLoop: the lock is kept across writeBlocking
PwLoopKeepingLock(q) ==
    IF ~mThreadsRun
    THEN pwPc' = "done" /\ mEventQueueWriteMutex' = "none"
    ELSE IF q = << >>
         THEN pwPc' = "prewait" /\ mEventQueueWriteMutex' = "pw"
         ELSE pwPc' = "write" /\ mEventQueueWriteMutex' = "pw"

\* With the lock held and the pending queue being q: the loop condition, the wait
\* predicate and the check after the wait. The thread returns ("done"), is about to
\* block with the lock still held ("prewait"), or unlocks for writeBlocking ("write").
PwLoop(q) ==
    IF ~mThreadsRun
    THEN pwPc' = "done" /\ mEventQueueWriteMutex' = "none"
    ELSE IF q = << >>
         THEN pwPc' = "prewait" /\ mEventQueueWriteMutex' = "pw"
         ELSE pwPc' = "write" /\ mEventQueueWriteMutex' = "none"

PwUnchanged ==
    UNCHANGED << mThreadsRun, mWakeLockQueue, mMostEventsObservedPendingWriteEventsQueue,
                 now, mWakelockMutex, wlPc, wlLocal, prod, clPc, unacked >>

\* std::unique_lock lock(mEventQueueWriteMutex) at thread start
PwStart ==
    /\ pwPc = "start"
    /\ mEventQueueWriteMutex = "none"
    /\ PwLoop(mPendingWriteEventsQueue)
    /\ PwUnchanged
    /\ UNCHANGED << mEventQueue, mPendingWriteEventsQueue, mSizePendingWriteEventsQueue,
                    mWakelockRefCount, mWakelockTimeoutStartTime, mWakelockTimeoutResetTime,
                    wakeLockHeld, hist >>
    /\ UNCHANGED extVars

\* condition_variable::wait releases the lock and blocks
PwBlock ==
    /\ pwPc = "prewait"
    /\ pwPc' = "waiting"
    /\ mEventQueueWriteMutex' = "none"
    /\ PwUnchanged
    /\ UNCHANGED << mEventQueue, mPendingWriteEventsQueue, mSizePendingWriteEventsQueue,
                    mWakelockRefCount, mWakelockTimeoutStartTime, mWakelockTimeoutResetTime,
                    wakeLockHeld, hist >>
    /\ UNCHANGED extVars

\* a notified thread takes the lock again and re-evaluates the predicate
PwWake ==
    /\ pwPc = "woken"
    /\ mEventQueueWriteMutex = "none"
    /\ PwLoop(mPendingWriteEventsQueue)
    /\ PwUnchanged
    /\ UNCHANGED << mEventQueue, mPendingWriteEventsQueue, mSizePendingWriteEventsQueue,
                    mWakelockRefCount, mWakelockTimeoutStartTime, mWakelockTimeoutResetTime,
                    wakeLockHeld, hist >>
    /\ UNCHANGED extVars

\* mEventQueue->writeBlocking succeeds once the channel has room for numToWrite events
PwWriteBlocking ==
    /\ pwPc = "write"
    /\ LET n == NumToWritePending(Head(mPendingWriteEventsQueue))
           written == SubSeq(Head(mPendingWriteEventsQueue).events, 1, n)
       IN  /\ AvailableToWrite >= n
           /\ mEventQueue' = mEventQueue \o written
           /\ hist' = [ hist EXCEPT !.lastId = LastWritten(written) ]
    /\ pwPc' = "relock"
    /\ PwUnchanged
    /\ UNCHANGED << mPendingWriteEventsQueue, mSizePendingWriteEventsQueue,
                    mWakelockRefCount, mWakelockTimeoutStartTime,
                    mWakelockTimeoutResetTime, wakeLockHeld, mEventQueueWriteMutex >>
    /\ UNCHANGED extVars

\* writeBlocking gives up after kPendingWriteTimeoutNs: the events are dropped
PwWriteTimeout ==
    /\ pwPc = "write"
    /\ AvailableToWrite < NumToWritePending(Head(mPendingWriteEventsQueue))
    /\ mWakelockMutex = "none"
    /\ SetWakelock(DecrementRefCountAndMaybeReleaseWakelock(WakelockState,
           WakeupsReleasedOnTimeout(Head(mPendingWriteEventsQueue)), -1))
    /\ pwPc' = "dropped"
    /\ PwUnchanged
    /\ UNCHANGED << mEventQueue, mPendingWriteEventsQueue, mSizePendingWriteEventsQueue,
                    mEventQueueWriteMutex, hist >>
    /\ UNCHANGED extVars

\* lock.lock(); mSizePendingWriteEventsQueue -= numToWrite; erase or pop; loop
PwRelock ==
    /\ pwPc \in { "relock", "dropped" }
    /\ mEventQueueWriteMutex = "none"
    /\ mSizePendingWriteEventsQueue' =
          (mSizePendingWriteEventsQueue
             - NumToWritePending(Head(mPendingWriteEventsQueue))) % SizeTModulus
    /\ mPendingWriteEventsQueue' = AfterDrain(mPendingWriteEventsQueue)
    /\ PwLoop(mPendingWriteEventsQueue')
    /\ PwUnchanged
    /\ UNCHANGED << mEventQueue, mWakelockRefCount, mWakelockTimeoutStartTime,
                    mWakelockTimeoutResetTime, wakeLockHeld, hist >>
    /\ UNCHANGED extVars

(* ---------------- wake-lock thread: HalProxy::handleWakelocks ----------- *)
WlUnchanged ==
    UNCHANGED << mThreadsRun, mEventQueue, mPendingWriteEventsQueue,
                 mSizePendingWriteEventsQueue,
                 mMostEventsObservedPendingWriteEventsQueue, mEventQueueWriteMutex,
                 pwPc, prod, clPc, unacked, now >>

\* With the mutex held and the coordinator in state w (the result of the call just
\* made): the loop condition, the wait predicate, the check after the wait and the
\* timeout test. The thread resets and returns ("done"), is about to block with the
\* mutex still held ("prewait"), resets after a timeout and is then about to block,
\* or unlocks for readBlocking ("read").
WlLoop(w) ==
    IF ~mThreadsRun
    THEN /\ SetWakelock(ResetSharedWakelock(w))
         /\ wlPc' = "done" /\ mWakelockMutex' = "none"
         /\ wlLocal' = NoWlLocal
         /\ hist' = hist
    ELSE IF w.refCount = 0
    THEN /\ SetWakelock(w)
         /\ wlPc' = "prewait" /\ mWakelockMutex' = "wl"
         /\ wlLocal' = NoWlLocal
         /\ hist' = hist
    ELSE IF SharedWakelockDidTimeout(w)
    THEN /\ SetWakelock(ResetSharedWakelock(w))
         /\ wlPc' = "prewait" /\ mWakelockMutex' = "wl"
         /\ wlLocal' = NoWlLocal
         /\ hist' = [ hist EXCEPT !.timeoutFired = TRUE ]
    ELSE /\ SetWakelock(w)
         /\ wlPc' = "read" /\ mWakelockMutex' = "none"
         /\ wlLocal' = [ NoWlLocal EXCEPT !.deadline = TimeLeftDeadline(w) ]
         /\ hist' = hist

\* std::unique_lock lock(mWakelockMutex) at thread start
WlStart ==
    /\ wlPc = "start"
    /\ mWakelockMutex = "none"
    /\ WlLoop(WakelockState)
    /\ WlUnchanged
    /\ UNCHANGED mWakeLockQueue
    /\ UNCHANGED extVars

\* condition_variable::wait releases the mutex and blocks
WlBlock ==
    /\ wlPc = "prewait"
    /\ wlPc' = "waiting"
    /\ mWakelockMutex' = "none"
    /\ WlUnchanged
    /\ UNCHANGED << mWakeLockQueue, mWakelockRefCount, mWakelockTimeoutStartTime,
                    mWakelockTimeoutResetTime, wakeLockHeld, wlLocal, hist >>
    /\ UNCHANGED extVars

\* a notified thread takes the mutex again and re-evaluates the predicate
WlWake ==
    /\ wlPc = "woken"
    /\ mWakelockMutex = "none"
    /\ WlLoop(WakelockState)
    /\ WlUnchanged
    /\ UNCHANGED mWakeLockQueue
    /\ UNCHANGED extVars

\* readBlocking returns a count the framework wrote
WlReadBlocking ==
    /\ wlPc = "read"
    /\ mWakeLockQueue # << >>
    /\ wlLocal' = [ wlLocal EXCEPT !.success = TRUE,
                                   !.numWakeLocksProcessed = Head(mWakeLockQueue) ]
    /\ mWakeLockQueue' = Tail(mWakeLockQueue)
    /\ wlPc' = "relock"
    /\ WlUnchanged
    /\ UNCHANGED << mWakelockRefCount, mWakelockTimeoutStartTime,
                    mWakelockTimeoutResetTime, wakeLockHeld, mWakelockMutex, hist >>
    /\ UNCHANGED extVars

\* readBlocking gives up when timeLeft has passed
WlReadTimeout ==
    /\ wlPc = "read"
    /\ mWakeLockQueue = << >>
    /\ now >= wlLocal.deadline
    /\ wlLocal' = [ wlLocal EXCEPT !.success = FALSE ]
    /\ wlPc' = "relock"
    /\ WlUnchanged
    /\ UNCHANGED << mWakeLockQueue, mWakelockRefCount, mWakelockTimeoutStartTime,
                    mWakelockTimeoutResetTime, wakeLockHeld, mWakelockMutex, hist >>
    /\ UNCHANGED extVars

\* lock.lock(); if (success) decrementRefCountAndMaybeReleaseWakelock(numWakeLocksProcessed);
\* loop
WlRelock ==
    /\ wlPc = "relock"
    /\ mWakelockMutex = "none"
    /\ WlLoop(IF wlLocal.success
              THEN DecrementRefCountAndMaybeReleaseWakelock(
                       WakelockState, wlLocal.numWakeLocksProcessed, -1)
              ELSE WakelockState)
    /\ WlUnchanged
    /\ UNCHANGED mWakeLockQueue
    /\ UNCHANGED extVars

(* ------------------- framework: reads, acknowledgements ----------------- *)
\* the framework reads one event from the event FMQ
ClientRead ==
    /\ mEventQueue # << >>
    /\ clPc # "destroyed"
    /\ mEventQueue' = Tail(mEventQueue)
    /\ unacked' = unacked + (IF Head(mEventQueue).wake THEN 1 ELSE 0)
    /\ UNCHANGED << mThreadsRun, mWakeLockQueue, mPendingWriteEventsQueue,
                    mSizePendingWriteEventsQueue,
                    mMostEventsObservedPendingWriteEventsQueue, mWakelockRefCount,
                    mWakelockTimeoutStartTime, mWakelockTimeoutResetTime, wakeLockHeld,
                    now, mEventQueueWriteMutex, mWakelockMutex, pwPc, wlPc, wlLocal,
                    prod, clPc, hist >>
    /\ UNCHANGED extVars

\* the framework writes the number of handled wake-up events to the wake-lock FMQ
ClientAck ==
    /\ unacked > 0
    /\ clPc # "destroyed"
    /\ Len(mWakeLockQueue) < WakeLockQuantumCount
    /\ mWakeLockQueue' = Append(mWakeLockQueue, unacked)
    /\ unacked' = 0
    /\ UNCHANGED << mThreadsRun, mEventQueue, mPendingWriteEventsQueue,
                    mSizePendingWriteEventsQueue,
                    mMostEventsObservedPendingWriteEventsQueue, mWakelockRefCount,
                    mWakelockTimeoutStartTime, mWakelockTimeoutResetTime, wakeLockHeld,
                    now, mEventQueueWriteMutex, mWakelockMutex, pwPc, wlPc, wlLocal,
                    prod, clPc, hist >>
    /\ UNCHANGED extVars

(* --------------- client: initialize, ~HalProxy, stopThreads ------------- *)
\* stopThreads, first statement: mThreadsRun.store(false). The caller is initialize
\* or ~HalProxy; which of the two shows only after the joins.
StopThreadsStore ==
    /\ clPc = "idle"
    /\ hist.inits < MaxInits
    /\ mThreadsRun' = FALSE
    /\ clPc' = "wake"
    /\ UNCHANGED << mEventQueue, mWakeLockQueue, mPendingWriteEventsQueue,
                    mSizePendingWriteEventsQueue,
                    mMostEventsObservedPendingWriteEventsQueue, mWakelockRefCount,
                    mWakelockTimeoutStartTime, mWakelockTimeoutResetTime, wakeLockHeld,
                    now, mEventQueueWriteMutex, mWakelockMutex, pwPc, wlPc, wlLocal,
                    prod, unacked, hist >>
    /\ UNCHANGED extVars

\* stopThreads: empty the event FMQ, write 0 to the wake-lock FMQ, wake both flags,
\* notify both condition variables (the FMQs exist once initialize has run)
StopThreadsWake ==
    /\ clPc = "wake"
    /\ IF hist.inits >= 1
       THEN /\ mEventQueue' = << >>
            /\ mWakeLockQueue' = IF Len(mWakeLockQueue) < WakeLockQuantumCount
                                 THEN Append(mWakeLockQueue, 0)
                                 ELSE mWakeLockQueue
       ELSE UNCHANGED << mEventQueue, mWakeLockQueue >>
    /\ wlPc' = NotifyOne(wlPc)
    /\ pwPc' = NotifyOne(pwPc)
    /\ clPc' = "join"
    /\ UNCHANGED << mThreadsRun, mPendingWriteEventsQueue, mSizePendingWriteEventsQueue,
                    mMostEventsObservedPendingWriteEventsQueue, mWakelockRefCount,
                    mWakelockTimeoutStartTime, mWakelockTimeoutResetTime, wakeLockHeld,
                    now, mEventQueueWriteMutex, mWakelockMutex, wlLocal, prod, unacked, hist >>
    /\ UNCHANGED extVars

\* both threads have returned (or were never started)
ThreadsJoined == pwPc \in { "off", "done" } /\ wlPc \in { "off", "done" }

\* stopThreads: both join() calls have returned
StopThreadsJoin ==
    /\ clPc = "join"
    /\ ThreadsJoined
    /\ clPc' = "stopped"
    /\ UNCHANGED << mThreadsRun, mEventQueue, mWakeLockQueue, mPendingWriteEventsQueue,
                    mSizePendingWriteEventsQueue,
                    mMostEventsObservedPendingWriteEventsQueue, mWakelockRefCount,
                    mWakelockTimeoutStartTime, mWakelockTimeoutResetTime, wakeLockHeld,
                    now, mEventQueueWriteMutex, mWakelockMutex, pwPc, wlPc, wlLocal,
                    prod, unacked, hist >>
    /\ UNCHANGED extVars

\* the caller was ~HalProxy: the proxy is gone
Destroyed ==
    /\ clPc = "stopped"
    /\ hist.inits >= 1
    /\ clPc' = "destroyed"
    /\ UNCHANGED << mThreadsRun, mEventQueue, mWakeLockQueue, mPendingWriteEventsQueue,
                    mSizePendingWriteEventsQueue,
                    mMostEventsObservedPendingWriteEventsQueue, mWakelockRefCount,
                    mWakelockTimeoutStartTime, mWakelockTimeoutResetTime, wakeLockHeld,
                    now, mEventQueueWriteMutex, mWakelockMutex, pwPc, wlPc, wlLocal,
                    prod, unacked, hist >>
    /\ UNCHANGED extVars

\* the caller was initialize: resetSharedWakelock(); disableAllSensors()
InitResetWakelock ==
    /\ clPc = "stopped"
    /\ hist.inits < MaxInits
    /\ mWakelockMutex = "none"
    /\ SetWakelock(ResetSharedWakelock(WakelockState))
    /\ clPc' = "clearQueue"
    /\ UNCHANGED << mThreadsRun, mEventQueue, mWakeLockQueue, mPendingWriteEventsQueue,
                    mSizePendingWriteEventsQueue,
                    mMostEventsObservedPendingWriteEventsQueue, now,
                    mEventQueueWriteMutex, mWakelockMutex, pwPc, wlPc, wlLocal, prod,
                    unacked, hist >>
    /\ UNCHANGED extVars

\* initialize: mPendingWriteEventsQueue = std::queue<...>(), without the queue's mutex
InitClearQueue ==
    /\ clPc = "clearQueue"
    /\ mPendingWriteEventsQueue' = << >>
    /\ clPc' = "clearSize"
    /\ UNCHANGED << mThreadsRun, mEventQueue, mWakeLockQueue,
                    mSizePendingWriteEventsQueue,
                    mMostEventsObservedPendingWriteEventsQueue, mWakelockRefCount,
                    mWakelockTimeoutStartTime, mWakelockTimeoutResetTime, wakeLockHeld,
                    now, mEventQueueWriteMutex, mWakelockMutex, pwPc, wlPc, wlLocal,
                    prod, unacked, hist >>
    /\ UNCHANGED extVars

\* initialize: mSizePendingWriteEventsQueue = 0, without the queue's mutex
InitClearSize ==
    /\ clPc = "clearSize"
    /\ mSizePendingWriteEventsQueue' = 0
    /\ clPc' = "restart"
    /\ UNCHANGED << mThreadsRun, mEventQueue, mWakeLockQueue, mPendingWriteEventsQueue,
                    mMostEventsObservedPendingWriteEventsQueue, mWakelockRefCount,
                    mWakelockTimeoutStartTime, mWakelockTimeoutResetTime, wakeLockHeld,
                    now, mEventQueueWriteMutex, mWakelockMutex, pwPc, wlPc, wlLocal,
                    prod, unacked, hist >>
    /\ UNCHANGED extVars

\* initialize: new FMQs, mThreadsRun.store(true), both threads started, sub-HALs
\* initialized with their callbacks
InitRestart ==
    /\ clPc = "restart"
    /\ mEventQueue' = << >>
    /\ mWakeLockQueue' = << >>
    /\ unacked' = 0
    /\ mThreadsRun' = TRUE
    /\ pwPc' = "start"
    /\ wlPc' = "start"
    /\ hist' = [ hist EXCEPT !.inits = @ + 1, !.timeoutFired = FALSE ]
    /\ clPc' = "idle"
    /\ UNCHANGED << mPendingWriteEventsQueue, mSizePendingWriteEventsQueue,
                    mMostEventsObservedPendingWriteEventsQueue, mWakelockRefCount,
                    mWakelockTimeoutStartTime, mWakelockTimeoutResetTime, wakeLockHeld,
                    now, mEventQueueWriteMutex, mWakelockMutex, wlLocal, prod >>
    /\ UNCHANGED extVars

(* -------------------------------- time ---------------------------------- *)
Tick ==
    /\ now < MaxTime
    /\ now' = now + 1
    /\ UNCHANGED << mThreadsRun, mEventQueue, mWakeLockQueue, mPendingWriteEventsQueue,
                    mSizePendingWriteEventsQueue,
                    mMostEventsObservedPendingWriteEventsQueue, mWakelockRefCount,
                    mWakelockTimeoutStartTime, mWakelockTimeoutResetTime, wakeLockHeld,
                    mEventQueueWriteMutex, mWakelockMutex, pwPc, wlPc, wlLocal, prod,
                    clPc, unacked, hist >>
    /\ UNCHANGED extVars

(* --------------------------- specification ------------------------------ *)
ProducerStep(p) ==
    \/ \E flags \in EventVectors : PostEvents(p, flags)
    \/ PostLock(p)
    \/ PostWrite(p)

PendingWritesStep ==
    \/ PwStart
    \/ PwBlock
    \/ PwWake
    \/ PwWriteBlocking
    \/ PwWriteTimeout
    \/ PwRelock

WakelockStep ==
    \/ WlStart
    \/ WlBlock
    \/ WlWake
    \/ WlReadBlocking
    \/ WlReadTimeout
    \/ WlRelock

ClientStep ==
    \/ StopThreadsStore
    \/ StopThreadsWake
    \/ StopThreadsJoin
    \/ Destroyed
    \/ InitResetWakelock
    \/ InitClearQueue
    \/ InitClearSize
    \/ InitRestart

FrameworkStep == ClientRead \/ ClientAck

Next ==
    \/ \E p \in Producers : ProducerStep(p)
    \/ PendingWritesStep
    \/ WakelockStep
    \/ ClientStep
    \/ FrameworkStep
    \/ Tick

Spec == Init /\ [][Next]_vars

\* The threads keep running once started, a call of the client runs to its end, and
\* time passes; whether initialize or the destructor is called at all, whether a sub-HAL
\* posts and whether the framework reads are left to the environment.
FairSpec ==
    /\ Spec
    /\ WF_vars(PendingWritesStep)
    /\ WF_vars(WakelockStep)
    /\ WF_vars(StopThreadsWake \/ StopThreadsJoin)
    /\ \A p \in Producers : WF_vars(PostLock(p) \/ PostWrite(p))
    /\ WF_vars(Tick)

(* ------------- the wake-lock calls, made from outside the pipeline ------- *)
\* what these calls leave alone
restVars ==
    << mEventQueue, mWakeLockQueue, mPendingWriteEventsQueue,
       mSizePendingWriteEventsQueue, mMostEventsObservedPendingWriteEventsQueue,
       mEventQueueWriteMutex, mWakelockMutex, pwPc, wlPc, wlLocal, prod, clPc,
       unacked, hist, proxyVars, cb >>

\* incrementRefCountAndMaybeAcquireWakelock(delta, &timeoutStart)
CoordAcquire(delta) ==
    /\ wlGhost.acquired < MaxAcquires
    /\ LET w == IncrementRefCountAndMaybeAcquireWakelock(WakelockState, delta)
       IN  /\ SetWakelock(w)
           /\ wlCall' = [ op |-> "acquire", delta |-> delta,
                          timeoutStart |-> IF w.ok THEN w.start ELSE -1, ok |-> w.ok ]
           /\ wlGhost' =
                 IF w.ok
                 THEN [ wlGhost EXCEPT !.outstanding[delta] = @ + 1,
                                       !.acquired = @ + 1,
                                       !.osAcquires = @ + (IF w.notify THEN 1 ELSE 0) ]
                 ELSE wlGhost
    /\ UNCHANGED << mThreadsRun, now >>
    /\ UNCHANGED restVars

\* decrementRefCountAndMaybeReleaseWakelock(delta, timeoutStart)
CoordRelease(delta, timeoutStart) ==
    /\ LET w == DecrementRefCountAndMaybeReleaseWakelock(WakelockState, delta,
                                                         timeoutStart)
           matched == wlGhost.outstanding[delta] > 0
           stale == timeoutStart # -1 /\ timeoutStart < mWakelockTimeoutResetTime
       IN  /\ SetWakelock(w)
           /\ wlCall' = [ op |-> "release", delta |-> delta,
                          timeoutStart |-> timeoutStart, ok |-> TRUE ]
           /\ wlGhost' =
                 [ wlGhost EXCEPT
                     !.outstanding[delta] = IF matched THEN @ - 1 ELSE @,
                     !.osReleases = @ + (IF wakeLockHeld /\ ~w.held THEN 1 ELSE 0),
                     !.clean = @ /\ matched /\ ~stale /\ mThreadsRun ]
    /\ UNCHANGED << mThreadsRun, now >>
    /\ UNCHANGED restVars

\* resetSharedWakelock()
CoordReset ==
    /\ LET w == ResetSharedWakelock(WakelockState)
       IN  /\ SetWakelock(w)
           /\ wlCall' = [ NoCall EXCEPT !.op = "reset" ]
           /\ wlGhost' =
                 [ wlGhost EXCEPT
                     !.osReleases = @ + (IF wakeLockHeld /\ ~w.held THEN 1 ELSE 0) ]
    /\ UNCHANGED << mThreadsRun, now >>
    /\ UNCHANGED restVars

\* getTimeNow() advances
CoordTick ==
    /\ now < MaxCoordTime
    /\ now' = now + 1
    /\ wlCall' = NoCall
    /\ UNCHANGED << mThreadsRun, mWakelockRefCount, mWakelockTimeoutStartTime,
                    mWakelockTimeoutResetTime, wakeLockHeld, wlGhost >>
    /\ UNCHANGED restVars

\* mThreadsRun.store(false) of stopThreads
CoordStop ==
    /\ mThreadsRun
    /\ mThreadsRun' = FALSE
    /\ wlCall' = NoCall
    /\ UNCHANGED << now, mWakelockRefCount, mWakelockTimeoutStartTime,
                    mWakelockTimeoutResetTime, wakeLockHeld, wlGhost >>
    /\ UNCHANGED restVars

\* mThreadsRun.store(true) of initialize
CoordStart ==
    /\ ~mThreadsRun
    /\ mThreadsRun' = TRUE
    /\ wlCall' = NoCall
    /\ UNCHANGED << now, mWakelockRefCount, mWakelockTimeoutStartTime,
                    mWakelockTimeoutResetTime, wakeLockHeld, wlGhost >>
    /\ UNCHANGED restVars

CoordNext ==
    \/ \E delta \in Deltas : CoordAcquire(delta)
    \/ \E delta \in Deltas, timeoutStart \in TimeoutStarts :
          CoordRelease(delta, timeoutStart)
    \/ CoordReset
    \/ CoordTick
    \/ CoordStop
    \/ CoordStart

\* The wake-lock calls in any order, one at a time (each runs under mWakelockMutex).
WakelockSpec == Init /\ [][CoordNext]_vars

(* --------------------------- sensor handles ----------------------------- *)
\* everything but proxyVars
coreVars ==
    << mThreadsRun, mEventQueue, mWakeLockQueue, mPendingWriteEventsQueue,
       mSizePendingWriteEventsQueue, mMostEventsObservedPendingWriteEventsQueue,
       mWakelockRefCount, mWakelockTimeoutStartTime, mWakelockTimeoutResetTime,
       wakeLockHeld, now, mEventQueueWriteMutex, mWakelockMutex, pwPc, wlPc,
       wlLocal, prod, clPc, unacked, hist, wlCall, wlGhost, cb >>

\* An int32_t handle is an integer in -2^31 .. 2^31 - 1; its bits are the sub-HAL
\* byte (bits 24..31, read as 0..255) and the 24 bits below.
ShiftUnit == 2 ^ kBitsAfterSubHalIndex

IndexBits == Int32Bits - kBitsAfterSubHalIndex

IndexModulus == 2 ^ IndexBits

TopByte(sensorHandle) == (sensorHandle \div ShiftUnit) % IndexModulus

LowBits(sensorHandle) == sensorHandle % ShiftUnit

\* the int32_t with these bits (two's complement)
Int32FromParts(top, low) ==
    (IF top >= IndexModulus \div 2 THEN top - IndexModulus ELSE top) * ShiftUnit + low

RECURSIVE BitOr(_, _, _)
\* a | b on n bits
BitOr(a, b, n) ==
    IF n = 0 THEN 0
    ELSE (IF a % 2 = 1 \/ b % 2 = 1 THEN 1 ELSE 0)
            + 2 * BitOr(a \div 2, b \div 2, n - 1)

RECURSIVE BitAnd(_, _, _)
\* a & b on n bits
BitAnd(a, b, n) ==
    IF n = 0 THEN 0
    ELSE (IF a % 2 = 1 /\ b % 2 = 1 THEN 1 ELSE 0)
            + 2 * BitAnd(a \div 2, b \div 2, n - 1)

\* kSensorHandleSubHalIndexMask (declared in HalProxy.h), as its sub-HAL byte: the
\* top 8 bits set; its 24 low bits are 0
kSensorHandleSubHalIndexMaskTop == IndexModulus - 1

\* sensorHandle | (static_cast<int32_t>(subHalIndex) << kBitsAfterSubHalIndex)
setSubHalIndex(sensorHandle, subHalIndex) ==
    Int32FromParts(BitOr(TopByte(sensorHandle), subHalIndex % IndexModulus, IndexBits),
                   LowBits(sensorHandle))

\* static_cast<size_t>(sensorHandle >> kBitsAfterSubHalIndex): the shift of a
\* negative int32_t is arithmetic (clang, gcc), and the conversion of the negative
\* result to size_t wraps around
extractSubHalIndex(sensorHandle) ==
    LET shifted == sensorHandle \div ShiftUnit
    IN  IF shifted >= 0 THEN shifted ELSE SizeTModulus + shifted

\* sensorHandle & (~kSensorHandleSubHalIndexMask)
clearSubHalIndex(sensorHandle) ==
    Int32FromParts(BitAnd(TopByte(sensorHandle),
                          IndexModulus - 1 - kSensorHandleSubHalIndexMaskTop, IndexBits),
                   LowBits(sensorHandle))

\* (sensorHandle & kSensorHandleSubHalIndexMask) == 0
subHalIndexIsClear(sensorHandle) ==
    BitAnd(TopByte(sensorHandle), kSensorHandleSubHalIndexMaskTop, IndexBits) = 0

\* handles a sub-HAL may use for its sensors: the sub-HAL byte is 0
LocalHandles == (0 .. MaxLocalHandle) \cup { ShiftUnit - 1 }

\* sub-HAL indexes that fit the sub-HAL byte
SubHalIndexes == 0 .. (IndexModulus - 1)

HandleInit ==
    /\ CoreInit
    /\ hnd \in { [ NoHandle EXCEPT !.pc = "input", !.sensorHandle = h, !.subHalIndex = i ] :
                    h \in LocalHandles, i \in SubHalIndexes }
    /\ mSubHalList = << >>
    /\ mSensors = << >>
    /\ mDynamicSensors = << >>
    /\ mDirectChannelSubHal = -1
    /\ mCurrentOperationMode = "NORMAL"
    /\ subHalMode = << >>
    /\ subHalCalls = << >>
    /\ ret = NoRet

handleRest ==
    << mSubHalList, mSensors, mDynamicSensors,
        mDirectChannelSubHal, mCurrentOperationMode, subHalMode,
       subHalCalls, ret >>

\* setSubHalIndex(sensorHandle, subHalIndex)
StampHandle ==
    /\ hnd.pc = "input"
    /\ hnd' = [ hnd EXCEPT !.pc = "stamped",
                           !.stamped = setSubHalIndex(hnd.sensorHandle, hnd.subHalIndex) ]
    /\ UNCHANGED << coreVars, handleRest >>

\* extractSubHalIndex of the stamped handle
ExtractIndex ==
    /\ hnd.pc = "stamped"
    /\ hnd' = [ hnd EXCEPT !.pc = "extracted",
                           !.extracted = extractSubHalIndex(hnd.stamped) ]
    /\ UNCHANGED << coreVars, handleRest >>

\* clearSubHalIndex of the stamped handle
ClearIndex ==
    /\ hnd.pc = "extracted"
    /\ hnd' = [ hnd EXCEPT !.pc = "done", !.cleared = clearSubHalIndex(hnd.stamped) ]
    /\ UNCHANGED << coreVars, handleRest >>

HandleNext == StampHandle \/ ExtractIndex \/ ClearIndex

HandleSpec == HandleInit /\ [][HandleNext]_vars

(* ------------------- client calls routed to the sub-HALs ---------------- *)
OperationModes == { "NORMAL", "DATA_INJECTION" }

\* Result values a sub-HAL may answer with
Results == { "OK", "BAD_VALUE", "INVALID_OPERATION" }

Failures == Results \ { "OK" }

\* V1_0::SensorType, as far as injectSensorData tells the values apart
SensorTypes == { "ADDITIONAL_INFO", "ACCELEROMETER" }

\* mSubHalList.size()
NumSubHals == Cardinality(DOMAIN mSubHalList)

\* sub-HAL lists without sensors: up to MaxSubHals sub-HALs, or LargeSubHalCount
SubHalListsWithoutSensors ==
    { [ i \in 0 .. n - 1 |-> [ sensors |-> << >> ] ] :
        n \in (0 .. MaxSubHals) \cup { LargeSubHalCount } }

\* handles a client may pass: every sub-HAL byte around the number of sub-HALs and
\* around the sign bit
ClientHandles ==
    { Int32FromParts(top, low) :
        top \in (0 .. MaxSubHals + 1)
                  \cup { IndexModulus \div 2 - 1, IndexModulus \div 2, IndexModulus - 1 },
        low \in 0 .. 1 }

RoutingInit ==
    /\ CoreInit
    /\ hnd = NoHandle
    /\ mSubHalList \in SubHalListsWithoutSensors
    /\ mSensors = << >>
    /\ mDynamicSensors = << >>
    /\ mDirectChannelSubHal = -1
    /\ mCurrentOperationMode = "NORMAL"
    /\ subHalMode = [ i \in DOMAIN mSubHalList |-> "NORMAL" ]
    /\ subHalCalls = << >>
    /\ ret = NoRet

\* extractSubHalIndex(sensorHandle) < mSubHalList.size()
isSubHalIndexValid(sensorHandle) == extractSubHalIndex(sensorHandle) < NumSubHals

\* the call into mSubHalList[extractSubHalIndex(sensorHandle)] with the cleared handle
ForwardedCall(op, sensorHandle, result) ==
    [ subHal |-> extractSubHalIndex(sensorHandle), op |-> op,
      sensorHandle |-> clearSubHalIndex(sensorHandle), mode |-> "NORMAL",
      result |-> result ]

\* activate, batch and flush: validate, forward, return the sub-HAL's result
RouteCall(op, sensorHandle, subHalResult) ==
    /\ IF ~isSubHalIndexValid(sensorHandle)
       THEN /\ subHalCalls' = << >>
            /\ ret' = [ NoRet EXCEPT !.op = op, !.sensorHandle = sensorHandle,
                                     !.result = "BAD_VALUE" ]
       ELSE /\ subHalCalls' = << ForwardedCall(op, sensorHandle, subHalResult) >>
            /\ ret' = [ NoRet EXCEPT !.op = op, !.sensorHandle = sensorHandle,
                                     !.result = subHalResult ]
    /\ UNCHANGED << coreVars, hnd, mSubHalList, mSensors, mDynamicSensors,
        mDirectChannelSubHal,
                    mCurrentOperationMode, subHalMode >>

Activate(sensorHandle, subHalResult) == RouteCall("activate", sensorHandle, subHalResult)

Batch(sensorHandle, subHalResult) == RouteCall("batch", sensorHandle, subHalResult)

Flush(sensorHandle, subHalResult) == RouteCall("flush", sensorHandle, subHalResult)

\* injectSensorData(event)
InjectSensorData(sensorHandle, sensorType, subHalResult) ==
    /\ IF mCurrentOperationMode = "NORMAL" /\ sensorType # "ADDITIONAL_INFO"
       THEN /\ subHalCalls' = << >>
            /\ ret' = [ NoRet EXCEPT !.op = "injectSensorData",
                                     !.sensorHandle = sensorHandle,
                                     !.sensorType = sensorType, !.result = "BAD_VALUE" ]
       ELSE IF ~isSubHalIndexValid(sensorHandle)
       THEN /\ subHalCalls' = << >>
            /\ ret' = [ NoRet EXCEPT !.op = "injectSensorData",
                                     !.sensorHandle = sensorHandle,
                                     !.sensorType = sensorType, !.result = "BAD_VALUE" ]
       ELSE /\ subHalCalls' =
                  << ForwardedCall("injectSensorData", sensorHandle, subHalResult) >>
            /\ ret' = [ NoRet EXCEPT !.op = "injectSensorData",
                                     !.sensorHandle = sensorHandle,
                                     !.sensorType = sensorType, !.result = subHalResult ]
    /\ UNCHANGED << coreVars, hnd, mSubHalList, mSensors, mDynamicSensors,
        mDirectChannelSubHal,
                    mCurrentOperationMode, subHalMode >>

\* a setOperationMode call into sub-HAL i
ModeCall(i, mode, result) ==
    [ subHal |-> i, op |-> "setOperationMode", sensorHandle |-> 0, mode |-> mode,
      result |-> result ]

\* the sub-HALs' modes after the second loop of setOperationMode: a sub-HAL before
\* subHalIndex took mode and is then asked for mCurrentOperationMode; it is in that
\* mode if it answers OK (rollbackFails are those that do not), the answer is ignored
ModesAfterRollback(modes, subHalIndex, mode, rollbackFails) ==
    [ i \in DOMAIN modes |->
        IF i < subHalIndex
        THEN (IF i \in rollbackFails THEN mode ELSE mCurrentOperationMode)
        ELSE modes[i] ]

\* setOperationMode(mode). What the sub-HALs answer is theirs to decide: rejectAt is
\* the first sub-HAL that does not answer OK (mSubHalList.size() if all do), failure
\* its Result, rollbackFails the sub-HALs that do not answer OK when asked to go back
SetOperationMode(mode, rejectAt, failure, rollbackFails) ==
    LET subHalIndex == rejectAt
        rejected == subHalIndex < NumSubHals
        numForward == IF rejected THEN subHalIndex + 1 ELSE NumSubHals
        forward == [ j \in 1 .. numForward |->
                       ModeCall(j - 1, mode,
                                IF j - 1 = subHalIndex THEN failure ELSE "OK") ]
        rollback == [ j \in 1 .. subHalIndex |->
                        ModeCall(j - 1, mCurrentOperationMode,
                                 IF j - 1 \in rollbackFails THEN "BAD_VALUE" ELSE "OK") ]
    IN  /\ IF rejected
           THEN /\ subHalCalls' = forward \o rollback
                /\ subHalMode' =
                     ModesAfterRollback(subHalMode, subHalIndex, mode, rollbackFails)
                /\ mCurrentOperationMode' = mCurrentOperationMode
                /\ ret' = [ NoRet EXCEPT !.op = "setOperationMode", !.mode = mode,
                                         !.result = failure ]
           ELSE /\ subHalCalls' = forward
                /\ subHalMode' = [ i \in DOMAIN subHalMode |-> mode ]
                /\ mCurrentOperationMode' = mode
                /\ ret' = [ NoRet EXCEPT !.op = "setOperationMode", !.mode = mode ]
        /\ UNCHANGED << coreVars, hnd, mSubHalList, mSensors, mDynamicSensors,
            mDirectChannelSubHal >>

\* initialize, the part that concerns the sub-HALs and the mode: each sub-HAL is
\* initialized in turn until one fails (failAt, mSubHalList.size() if none), then
\* mCurrentOperationMode = NORMAL. Whether a sub-HAL falls back to NORMAL when it is
\* initialized is its own business (resets).
InitializeSubHals(failAt, failure, resets) ==
    /\ subHalCalls' =
          [ j \in 1 .. (IF failAt < NumSubHals THEN failAt + 1 ELSE NumSubHals) |->
              [ subHal |-> j - 1, op |-> "initialize", sensorHandle |-> 0,
                mode |-> "NORMAL",
                result |-> IF j - 1 = failAt THEN failure ELSE "OK" ] ]
    /\ subHalMode' = [ i \in DOMAIN subHalMode |->
                         IF i < failAt /\ resets THEN "NORMAL" ELSE subHalMode[i] ]
    /\ mCurrentOperationMode' = "NORMAL"
    /\ ret' = [ NoRet EXCEPT !.op = "initialize",
                             !.result = IF failAt < NumSubHals THEN failure ELSE "OK" ]
    /\ mDynamicSensors' = << >>
    /\ UNCHANGED << coreVars, hnd, mSubHalList, mSensors, mDirectChannelSubHal >>

\* where a loop over the sub-HALs may meet its first failure: at one of the first
\* MaxSubHals sub-HALs, at the last one, or nowhere (mSubHalList.size())
RejectPoints ==
    { i \in (0 .. MaxSubHals - 1) \cup { NumSubHals - 1 } : 0 <= i /\ i < NumSubHals }
      \cup { NumSubHals }

RoutingNext ==
    \/ \E h \in ClientHandles, r \in Results : Activate(h, r)
    \/ \E h \in ClientHandles, r \in Results : Batch(h, r)
    \/ \E h \in ClientHandles, r \in Results : Flush(h, r)
    \/ \E h \in ClientHandles, t \in SensorTypes, r \in Results :
          InjectSensorData(h, t, r)
    \/ \E mode \in OperationModes, rejectAt \in RejectPoints, failure \in Failures,
          rollbackFails \in SUBSET (0 .. MaxSubHals - 1) :
          SetOperationMode(mode, rejectAt, failure, rollbackFails)
    \/ \E failAt \in RejectPoints, failure \in Failures, resets \in BOOLEAN :
          InitializeSubHals(failAt, failure, resets)

RoutingSpec == RoutingInit /\ [][RoutingNext]_vars

(* ------------------------- the merged sensor list ------------------------ *)
\* handles a sub-HAL may report: 1 .. MaxLocalHandle, and one whose sub-HAL byte is
\* already set
ReportedHandles == (1 .. MaxLocalHandle) \cup { Int32FromParts(1, 1) }

\* SensorInfo, as far as the proxy looks at it: the handle, whether flags has
\* MASK_DIRECT_REPORT or MASK_DIRECT_CHANNEL bits, and whether it has WAKE_UP (which
\* plays no part when the list is merged)
SensorInfos == [ sensorHandle : ReportedHandles, direct : BOOLEAN, wakeUp : { FALSE } ]

\* the lists a sub-HAL may give to getSensorsList: up to MaxSensors sensors with
\* handles of their own
SensorLists ==
    { list \in UNION { [ 1 .. n -> SensorInfos ] : n \in 0 .. MaxSensors } :
        \A j, k \in DOMAIN list : j # k => list[j].sensorHandle # list[k].sensorHandle }

\* sub-HAL lists: up to MaxSubHals sub-HALs with any sensor lists, or LargeSubHalCount
\* sub-HALs of which the first and the last have sensors
SubHalLists ==
    UNION { [ 0 .. n - 1 -> [ sensors : SensorLists ] ] : n \in 0 .. MaxSubHals }
    \cup { [ i \in 0 .. LargeSubHalCount - 1 |->
               [ sensors |-> IF i = 0 THEN first
                             ELSE IF i = LargeSubHalCount - 1 THEN last ELSE << >> ] ] :
             first \in SensorLists, last \in SensorLists }

\* the state in which the constructor finds the members before it calls init()
CatalogInit ==
    /\ CoreInit
    /\ hnd = NoHandle
    /\ mSubHalList \in SubHalLists
    /\ mSensors = << >>
    /\ mDynamicSensors = << >>
    /\ mDirectChannelSubHal = -1
    /\ mCurrentOperationMode = "NORMAL"
    /\ subHalMode = [ i \in DOMAIN mSubHalList |-> "NORMAL" ]
    /\ subHalCalls = << >>
    /\ ret = NoRet

\* mutant of setDirectChannelFlags: the flags of the other sub-HALs are kept
setDirectChannelFlagsKeepingAll(sensorInfo, subHal, directChannelSubHal) ==
    [ direct |-> sensorInfo.direct,
      mDirectChannelSubHal |->
        IF directChannelSubHal = -1 /\ sensorInfo.direct
        THEN subHal ELSE directChannelSubHal ]

\* setDirectChannelFlags(&sensorInfo, subHal): the flag the sensor keeps and the
\* value of mDirectChannelSubHal afterwards
setDirectChannelFlags(sensorInfo, subHal, directChannelSubHal) ==
    IF directChannelSubHal = -1 /\ sensorInfo.direct
    THEN [ direct |-> sensorInfo.direct, mDirectChannelSubHal |-> subHal ]
    ELSE IF directChannelSubHal # -1 /\ subHal # directChannelSubHal
    THEN [ direct |-> FALSE, mDirectChannelSubHal |-> directChannelSubHal ]
    ELSE [ direct |-> sensorInfo.direct, mDirectChannelSubHal |-> directChannelSubHal ]

\* m with m[key] = value, as std::map::operator[] followed by an assignment
MapPut(m, key, value) ==
    [ k \in DOMAIN m \cup { key } |-> IF k = key THEN value ELSE m[k] ]

\* the next sub-HAL after subHalIndex whose list has a sensor, mSubHalList.size() if
\* there is none: the outer loop of initializeSensorList does nothing for a sub-HAL
\* with an empty list
NextSubHalWithSensors(subHalIndex) ==
    LET later == { i \in DOMAIN mSubHalList :
                     i > subHalIndex /\ Len(mSubHalList[i].sensors) > 0 }
    IN  IF later = { } THEN NumSubHals
        ELSE CHOOSE i \in later : \A j \in later : i <= j

\* the loops of initializeSensorList from sensor k of sub-HAL subHalIndex on; the
\* result is mSensors and mDirectChannelSubHal at the end. An entry of mSensors also
\* remembers which sub-HAL reported it and under which handle (history).
RECURSIVE LoadSensors(_, _, _, _)
LoadSensors(subHalIndex, k, sensors, directChannelSubHal) ==
    IF subHalIndex >= NumSubHals
    THEN [ mSensors |-> sensors, mDirectChannelSubHal |-> directChannelSubHal ]
    ELSE IF k > Len(mSubHalList[subHalIndex].sensors)
    THEN LoadSensors(NextSubHalWithSensors(subHalIndex), 1, sensors,
                     directChannelSubHal)
    ELSE LET sensor == mSubHalList[subHalIndex].sensors[k]
         IN  IF ~subHalIndexIsClear(sensor.sensorHandle)
             THEN LoadSensors(subHalIndex, k + 1, sensors, directChannelSubHal)
             ELSE LET sensorHandle == setSubHalIndex(sensor.sensorHandle, subHalIndex)
                      flagged == setDirectChannelFlags(sensor, subHalIndex,
                                                       directChannelSubHal)
                  IN  LoadSensors(subHalIndex, k + 1,
                                  MapPut(sensors, sensorHandle,
                                         [ sensorHandle |-> sensorHandle,
                                           direct |-> flagged.direct,
                                           wakeUp |-> sensor.wakeUp,
                                           reportedBy |-> subHalIndex,
                                           reportedAs |-> sensor.sensorHandle ]),
                                  flagged.mDirectChannelSubHal)

\* init(), called by the constructors: initializeSubHalCallbacks, initializeSensorList
initializeSensorList ==
    /\ ret.op = "none"
    /\ LET loaded == LoadSensors(NextSubHalWithSensors(-1), 1, mSensors,
                                 mDirectChannelSubHal)
       IN  /\ mSensors' = loaded.mSensors
           /\ mDirectChannelSubHal' = loaded.mDirectChannelSubHal
    /\ subHalCalls' = [ j \in 1 .. NumSubHals |->
                          [ subHal |-> j - 1, op |-> "getSensorsList", sensorHandle |-> 0,
                            mode |-> "NORMAL", result |-> "OK" ] ]
    /\ ret' = [ NoRet EXCEPT !.op = "init" ]
    /\ UNCHANGED << coreVars, hnd, mSubHalList, mDynamicSensors, mCurrentOperationMode,
                    subHalMode >>

\* getSensorsList(_hidl_cb): the values of mSensors are handed to the callback
GetSensorsList ==
    /\ ret.op # "none"
    /\ subHalCalls' = << >>
    /\ ret' = [ NoRet EXCEPT !.op = "getSensorsList" ]
    /\ UNCHANGED << coreVars, hnd, mSubHalList, mSensors, mDynamicSensors,
        mDirectChannelSubHal,
                    mCurrentOperationMode, subHalMode >>

\* handles a client may pass to configDirectReport: of the first two sub-HALs
DirectReportHandles == { Int32FromParts(top, 1) : top \in 0 .. 1 }

\* mutant of DirectChannelCalls: the call goes to the sub-HAL the handle names
DirectChannelCallsByHandle(op, sensorHandle, subHalResult) ==
    << [ subHal |-> extractSubHalIndex(sensorHandle), op |-> op,
         sensorHandle |-> clearSubHalIndex(sensorHandle), mode |-> "NORMAL",
         result |-> subHalResult ] >>

\* mutant of DirectChannelCalls: the handle is passed on with its sub-HAL byte
DirectChannelCallsUncleared(op, sensorHandle, subHalResult) ==
    IF mDirectChannelSubHal = -1 THEN << >>
    ELSE << [ subHal |-> mDirectChannelSubHal, op |-> op,
              sensorHandle |-> sensorHandle, mode |-> "NORMAL",
              result |-> subHalResult ] >>

\* the calls into sub-HALs a direct-channel operation makes: none when
\* mDirectChannelSubHal == nullptr, else one into mDirectChannelSubHal
DirectChannelCalls(op, sensorHandle, subHalResult) ==
    IF mDirectChannelSubHal = -1 THEN << >>
    ELSE << [ subHal |-> mDirectChannelSubHal, op |-> op,
              sensorHandle |-> clearSubHalIndex(sensorHandle), mode |-> "NORMAL",
              result |-> subHalResult ] >>

\* registerDirectChannel, unregisterDirectChannel, configDirectReport: the result is
\* INVALID_OPERATION when mDirectChannelSubHal == nullptr, else what the sub-HAL
\* answers
DirectChannelOp(op, sensorHandle, subHalResult) ==
    /\ ret.op # "none"
    /\ subHalCalls' = DirectChannelCalls(op, sensorHandle, subHalResult)
    /\ ret' = [ NoRet EXCEPT !.op = op, !.sensorHandle = sensorHandle,
                             !.result = IF mDirectChannelSubHal = -1
                                        THEN "INVALID_OPERATION" ELSE subHalResult ]
    /\ UNCHANGED << coreVars, hnd, mSubHalList, mSensors, mDynamicSensors,
                    mDirectChannelSubHal, mCurrentOperationMode, subHalMode >>

RegisterDirectChannel(subHalResult) ==
    DirectChannelOp("registerDirectChannel", 0, subHalResult)

UnregisterDirectChannel(subHalResult) ==
    DirectChannelOp("unregisterDirectChannel", 0, subHalResult)

ConfigDirectReport(sensorHandle, subHalResult) ==
    DirectChannelOp("configDirectReport", sensorHandle, subHalResult)

CatalogNext ==
    \/ initializeSensorList
    \/ GetSensorsList
    \/ \E r \in Results : RegisterDirectChannel(r)
    \/ \E r \in Results : UnregisterDirectChannel(r)
    \/ \E h \in DirectReportHandles, r \in Results : ConfigDirectReport(h, r)

CatalogSpec == CatalogInit /\ [][CatalogNext]_vars

(* --------------------------- dynamic sensors ---------------------------- *)
\* the vectors a sub-HAL may pass to onDynamicSensorsConnected (the flags play no
\* part for dynamic sensors)
DynamicSensorsAdded ==
    UNION { [ 1 .. n -> { sensor \in SensorInfos : ~sensor.direct } ] :
              n \in 0 .. MaxSensors }

\* the vectors a sub-HAL may pass to onDynamicSensorsDisconnected
DynamicSensorHandlesRemoved ==
    UNION { [ 1 .. n -> ReportedHandles ] : n \in 0 .. MaxSensors }

\* the sub-HALs whose callbacks are explored: the first MaxSubHals and the last
DynamicSubHals ==
    { i \in DOMAIN mSubHalList : i < MaxSubHals \/ i = NumSubHals - 1 }

\* the proxy after initialize, no dynamic sensor connected
DynamicInit ==
    /\ CoreInit
    /\ mThreadsRun
    /\ hnd = NoHandle
    /\ mSubHalList \in { l \in SubHalListsWithoutSensors : l # << >> }
    /\ mSensors = << >>
    /\ mDynamicSensors = << >>
    /\ mDirectChannelSubHal = -1
    /\ mCurrentOperationMode = "NORMAL"
    /\ subHalMode = [ i \in DOMAIN mSubHalList |-> "NORMAL" ]
    /\ subHalCalls = << >>
    /\ ret = NoRet

\* m without the key
MapErase(m, key) == [ k \in DOMAIN m \ { key } |-> m[k] ]

\* mutant of ConnectLoop: sensors with a set sub-HAL byte are stored as well
RECURSIVE ConnectLoopUnchecked(_, _, _, _, _)
ConnectLoopUnchecked(dynamicSensorsAdded, k, subHalIndex, dynamicSensors, sensors) ==
    IF k > Len(dynamicSensorsAdded)
    THEN [ mDynamicSensors |-> dynamicSensors, sensors |-> sensors ]
    ELSE LET sensor == dynamicSensorsAdded[k]
             stamped == [ sensorHandle |-> setSubHalIndex(sensor.sensorHandle, subHalIndex),
                          direct |-> sensor.direct, wakeUp |-> sensor.wakeUp,
                          reportedBy |-> subHalIndex,
                          reportedAs |-> sensor.sensorHandle ]
         IN  ConnectLoopUnchecked(dynamicSensorsAdded, k + 1, subHalIndex,
                                  MapPut(dynamicSensors, stamped.sensorHandle, stamped),
                                  Append(sensors, stamped))

\* the loop of onDynamicSensorsConnected from element k on: mDynamicSensors and the
\* local vector sensors at its end
RECURSIVE ConnectLoop(_, _, _, _, _)
ConnectLoop(dynamicSensorsAdded, k, subHalIndex, dynamicSensors, sensors) ==
    IF k > Len(dynamicSensorsAdded)
    THEN [ mDynamicSensors |-> dynamicSensors, sensors |-> sensors ]
    ELSE LET sensor == dynamicSensorsAdded[k]
             stamped == [ sensorHandle |-> setSubHalIndex(sensor.sensorHandle, subHalIndex),
                          direct |-> sensor.direct, wakeUp |-> sensor.wakeUp,
                          reportedBy |-> subHalIndex,
                          reportedAs |-> sensor.sensorHandle ]
         IN  IF ~subHalIndexIsClear(sensor.sensorHandle)
             THEN ConnectLoop(dynamicSensorsAdded, k + 1, subHalIndex, dynamicSensors,
                              sensors)
             ELSE ConnectLoop(dynamicSensorsAdded, k + 1, subHalIndex,
                              MapPut(dynamicSensors, stamped.sensorHandle, stamped),
                              Append(sensors, stamped))

\* the loop of onDynamicSensorsDisconnected from element k on: mDynamicSensors and the
\* local vector sensorHandles at its end
RECURSIVE DisconnectLoop(_, _, _, _, _)
DisconnectLoop(handlesRemoved, k, subHalIndex, dynamicSensors, sensorHandles) ==
    IF k > Len(handlesRemoved)
    THEN [ mDynamicSensors |-> dynamicSensors, sensorHandles |-> sensorHandles ]
    ELSE LET sensorHandle == setSubHalIndex(handlesRemoved[k], subHalIndex)
         IN  IF /\ subHalIndexIsClear(handlesRemoved[k])
                /\ sensorHandle \in DOMAIN dynamicSensors
             THEN DisconnectLoop(handlesRemoved, k + 1, subHalIndex,
                                 MapErase(dynamicSensors, sensorHandle),
                                 Append(sensorHandles, sensorHandle))
             ELSE DisconnectLoop(handlesRemoved, k + 1, subHalIndex,
                                 dynamicSensors, sensorHandles)

\* onDynamicSensorsConnected(dynamicSensorsAdded, subHalIndex)
OnDynamicSensorsConnected(dynamicSensorsAdded, subHalIndex) ==
    /\ LET r == ConnectLoop(dynamicSensorsAdded, 1, subHalIndex, mDynamicSensors, << >>)
       IN  /\ mDynamicSensors' = r.mDynamicSensors
           /\ ret' = [ NoRet EXCEPT !.op = "onDynamicSensorsConnected",
                                    !.args = dynamicSensorsAdded,
                                    !.subHalIndex = subHalIndex,
                                    !.forwarded = r.sensors,
                                    !.before = mDynamicSensors ]
    /\ subHalCalls' = << >>
    /\ UNCHANGED << coreVars, hnd, mSubHalList, mSensors, mDirectChannelSubHal,
                    mCurrentOperationMode, subHalMode >>

\* onDynamicSensorsDisconnected(dynamicSensorHandlesRemoved, subHalIndex)
OnDynamicSensorsDisconnected(dynamicSensorHandlesRemoved, subHalIndex) ==
    /\ LET r == DisconnectLoop(dynamicSensorHandlesRemoved, 1, subHalIndex,
                               mDynamicSensors, << >>)
       IN  /\ mDynamicSensors' = r.mDynamicSensors
           /\ ret' = [ NoRet EXCEPT !.op = "onDynamicSensorsDisconnected",
                                    !.args = dynamicSensorHandlesRemoved,
                                    !.subHalIndex = subHalIndex,
                                    !.forwarded = r.sensorHandles ]
    /\ subHalCalls' = << >>
    /\ UNCHANGED << coreVars, hnd, mSubHalList, mSensors, mDirectChannelSubHal,
                    mCurrentOperationMode, subHalMode >>

DynamicNext ==
    \/ \E added \in DynamicSensorsAdded, i \in DynamicSubHals :
          OnDynamicSensorsConnected(added, i)
    \/ \E removed \in DynamicSensorHandlesRemoved, i \in DynamicSubHals :
          OnDynamicSensorsDisconnected(removed, i)

DynamicSpec == DynamicInit /\ [][DynamicNext]_vars

(* ------------- dynamic-sensor callbacks on concurrent threads ------------ *)
\* Each callback updates mDynamicSensors inside a lock_guard block on
\* mDynamicSensorsMutex and calls mDynamicSensorsCallback after the block has been
\* left: the update is one step, the call upstream another.

\* what the callback threads leave alone
callbackRest ==
    << mThreadsRun, mEventQueue, mWakeLockQueue, mPendingWriteEventsQueue,
       mSizePendingWriteEventsQueue, mMostEventsObservedPendingWriteEventsQueue,
       mWakelockRefCount, mWakelockTimeoutStartTime, mWakelockTimeoutResetTime,
       wakeLockHeld, now, mEventQueueWriteMutex, mWakelockMutex, pwPc, wlPc,
       wlLocal, prod, clPc, unacked, hist, wlCall, wlGhost, hnd, mSubHalList,
       mSensors, mDirectChannelSubHal, mCurrentOperationMode, subHalMode,
       subHalCalls, ret >>

\* the proxy after initialize, no dynamic sensor connected, no callback under way
CallbackInit == DynamicInit /\ Cardinality(DOMAIN mSubHalList) <= MaxSubHals

\* onDynamicSensorsConnected up to the end of the locked block, on thread t
CbConnectedLocked(t, dynamicSensorsAdded, subHalIndex) ==
    /\ cb.threads[t].pc = "idle"
    /\ cb.applied < MaxCallbacks
    /\ LET r == ConnectLoop(dynamicSensorsAdded, 1, subHalIndex, mDynamicSensors, << >>)
       IN  /\ mDynamicSensors' = r.mDynamicSensors
           /\ cb' = [ cb EXCEPT !.applied = cb.applied + 1,
                                !.threads[t] =
                                    [ pc |-> "forward", op |-> "connected",
                                      seq |-> cb.applied + 1,
                                      forwarded |->
                                          [ k \in DOMAIN r.sensors |->
                                              r.sensors[k].sensorHandle ] ] ]
    /\ UNCHANGED callbackRest

\* onDynamicSensorsDisconnected up to the end of the locked block, on thread t
CbDisconnectedLocked(t, dynamicSensorHandlesRemoved, subHalIndex) ==
    /\ cb.threads[t].pc = "idle"
    /\ cb.applied < MaxCallbacks
    /\ LET r == DisconnectLoop(dynamicSensorHandlesRemoved, 1, subHalIndex,
                               mDynamicSensors, << >>)
       IN  /\ mDynamicSensors' = r.mDynamicSensors
           /\ cb' = [ cb EXCEPT !.applied = cb.applied + 1,
                                !.threads[t] =
                                    [ pc |-> "forward", op |-> "disconnected",
                                      seq |-> cb.applied + 1,
                                      forwarded |-> r.sensorHandles ] ]
    /\ UNCHANGED callbackRest

\* the call of mDynamicSensorsCallback that ends either callback, on thread t
CbForward(t) ==
    /\ cb.threads[t].pc = "forward"
    /\ cb' = [ cb EXCEPT !.threads[t] = IdleCallback,
                         !.upstream =
                             Append(cb.upstream,
                                    [ op |-> cb.threads[t].op,
                                      seq |-> cb.threads[t].seq,
                                      handles |-> cb.threads[t].forwarded ]) ]
    /\ UNCHANGED << callbackRest, mDynamicSensors >>

CallbackNext ==
    \/ \E t \in CallbackThreads, i \in DOMAIN mSubHalList :
          \E sensor \in { s \in SensorInfos : ~s.direct } :
             CbConnectedLocked(t, << sensor >>, i)
    \/ \E t \in CallbackThreads, i \in DOMAIN mSubHalList :
          \E sensorHandle \in ReportedHandles :
             CbDisconnectedLocked(t, << sensorHandle >>, i)
    \/ \E t \in CallbackThreads : CbForward(t)

CallbackSpec == CallbackInit /\ [][CallbackNext]_vars

(* ------------------- events and the merged sensor list ------------------- *)
\* the most sensors a sub-HAL reports when events are explored
MaxStaticSensors == 1

\* what such a sub-HAL reports: sensors with handle 1 .. MaxStaticSensors, with or
\* without WAKE_UP
WakeUpSensorLists ==
    UNION { [ 1 .. n -> BOOLEAN ] : n \in 0 .. MaxStaticSensors }

EventSubHalLists ==
    UNION { [ 0 .. n - 1 ->
                { [ sensors |-> [ k \in DOMAIN list |->
                                    [ sensorHandle |-> k, direct |-> FALSE,
                                      wakeUp |-> list[k] ] ] ] :
                    list \in WakeUpSensorLists } ] : n \in 1 .. MaxSubHals }

\* the vectors a sub-HAL may post: events of the handles 1 .. MaxLocalHandle, those
\* of its dynamic sensors included
PostedEvents ==
    UNION { [ 1 .. n -> [ sensorHandle : 1 .. MaxLocalHandle ] ] : n \in 1 .. MaxBatch }

\* the proxy after construction (init() has merged the sensor lists) and initialize
EventCatalogInit ==
    /\ CoreInit
    /\ mThreadsRun
    /\ hnd = NoHandle
    /\ mSubHalList \in EventSubHalLists
    /\ mSensors = LoadSensors(NextSubHalWithSensors(-1), 1, << >>, -1).mSensors
    /\ mDynamicSensors = << >>
    /\ mDirectChannelSubHal = -1
    /\ mCurrentOperationMode = "NORMAL"
    /\ subHalMode = [ i \in DOMAIN mSubHalList |-> "NORMAL" ]
    /\ subHalCalls = << >>
    /\ ret = [ NoRet EXCEPT !.op = "initialize" ]

\* a value-initialized SensorInfo, as std::map::operator[] inserts it for a key that
\* is not in the map: flags = 0; no sub-HAL reported it
DefaultSensorInfo ==
    [ sensorHandle |-> 0, direct |-> FALSE, wakeUp |-> FALSE, reportedBy |-> -1,
      reportedAs |-> 0 ]

\* m after m[key] was evaluated: std::map::operator[] inserts a value-initialized
\* element when the key is missing
MapIndex(m, key) == IF key \in DOMAIN m THEN m ELSE MapPut(m, key, DefaultSensorInfo)

\* getSensorInfo(sensorHandle): the descriptor of the merged list, read only
getSensorInfo(sensorHandle) ==
    IF sensorHandle \in DOMAIN mSensors THEN mSensors[sensorHandle]
    ELSE DefaultSensorInfo

\* the loop of processEvents from element k on: eventsOut and *numWakeupEvents
RECURSIVE ProcessLoop(_, _, _, _, _)
ProcessLoop(events, k, subHalIndex, eventsOut, numWakeupEvents) ==
    IF k > Len(events)
    THEN [ eventsOut |-> eventsOut, numWakeupEvents |-> numWakeupEvents ]
    ELSE LET sensorHandle == setSubHalIndex(events[k].sensorHandle, subHalIndex)
         IN  ProcessLoop(events, k + 1, subHalIndex,
                         Append(eventsOut, [ sensorHandle |-> sensorHandle ]),
                         IF getSensorInfo(sensorHandle).wakeUp
                         THEN numWakeupEvents + 1 ELSE numWakeupEvents)

\* the loop of countNumWakeupEvents from element i on (i counts from 1): mSensors
\* and numWakeupEvents at its end
RECURSIVE CountLoop(_, _, _, _, _)
CountLoop(events, i, n, sensors, numWakeupEvents) ==
    IF i > n
    THEN [ mSensors |-> sensors, numWakeupEvents |-> numWakeupEvents ]
    ELSE LET indexed == MapIndex(sensors, events[i].sensorHandle)
         IN  CountLoop(events, i + 1, n, indexed,
                       IF indexed[events[i].sensorHandle].wakeUp
                       THEN numWakeupEvents + 1 ELSE numWakeupEvents)

\* HalProxyCallback::processEvents(events, &numWakeupEvents), called by postEvents
\* for a vector that is not empty while the threads run
ProcessEventsCall(events, subHalIndex) ==
    /\ mThreadsRun
    /\ LET r == ProcessLoop(events, 1, subHalIndex, << >>, 0)
       IN  ret' = [ NoRet EXCEPT !.op = "processEvents",
                                 !.args = events,
                                 !.subHalIndex = subHalIndex,
                                 !.forwarded = r.eventsOut,
                                 !.numWakeupEvents = r.numWakeupEvents ]
    /\ subHalCalls' = << >>
    /\ UNCHANGED << coreVars, hnd, mSubHalList, mSensors, mDynamicSensors,
                    mDirectChannelSubHal, mCurrentOperationMode, subHalMode >>

\* HalProxy::countNumWakeupEvents(pendingWriteEvents, eventQueueSize), as
\* handlePendingWrites calls it after a failed write: for a processed vector with
\* wake-up events that is longer than eventQueueSize
CountNumWakeupEvents(n) ==
    /\ ret.op = "processEvents"
    /\ ret.numWakeupEvents > 0
    /\ n < Len(ret.forwarded)
    /\ LET r == CountLoop(ret.forwarded, 1, n, mSensors, 0)
       IN  /\ mSensors' = r.mSensors
           /\ ret' = [ NoRet EXCEPT !.op = "countNumWakeupEvents",
                                    !.args = ret.forwarded,
                                    !.numWakeupEvents = r.numWakeupEvents ]
    /\ subHalCalls' = << >>
    /\ UNCHANGED << coreVars, hnd, mSubHalList, mDynamicSensors, mDirectChannelSubHal,
                    mCurrentOperationMode, subHalMode >>

EventCatalogNext ==
    \/ \E events \in PostedEvents, i \in DOMAIN mSubHalList :
          ProcessEventsCall(events, i)
    \/ \E n \in 1 .. MaxBatch : CountNumWakeupEvents(n)
    \/ GetSensorsList
    \/ \E added \in DynamicSensorsAdded, i \in DOMAIN mSubHalList :
          OnDynamicSensorsConnected(added, i)
    \/ \E removed \in DynamicSensorHandlesRemoved, i \in DOMAIN mSubHalList :
          OnDynamicSensorsDisconnected(removed, i)
    \/ \E failure \in Failures, resets \in BOOLEAN :
          InitializeSubHals(NumSubHals, failure, resets)

EventCatalogSpec == EventCatalogInit /\ [][EventCatalogNext]_vars

(* ------------------------------ properties ------------------------------ *)
\* the events a step appends to the output channel
NewlyWritten ==
    IF Len(mEventQueue') > Len(mEventQueue)
    THEN SubSeq(mEventQueue', Len(mEventQueue) + 1, Len(mEventQueue'))
    ELSE << >>

\* a step of producer p that runs the second part of postEventsToMessageQueue
IsPostWrite(p) == prod[p].pc = "write" /\ prod'[p].pc = "idle"

\* C1: the events written to the output channel appear in post order: every step
\* appends events whose ids increase and exceed the id of the last event written
\* before; post appends only when nothing is pending; the pending-writes thread
\* appends only a prefix of the front batch.
C1_WrittenInPostOrder ==
    [][ /\ \A i \in DOMAIN NewlyWritten :
              NewlyWritten[i].id >
                  (IF i = 1 THEN hist.lastId ELSE NewlyWritten[i - 1].id)
        /\ \A p \in Producers :
              (IsPostWrite(p) /\ NewlyWritten # << >>)
                  => mPendingWriteEventsQueue = << >>
        /\ (pwPc = "write" /\ NewlyWritten # << >>)
              => NewlyWritten = SubSeq(Head(mPendingWriteEventsQueue).events, 1,
                                       Len(NewlyWritten))
      ]_vars

\* an event of the second post has been written by the pending-writes thread
C1_Witness == pwPc = "relock" /\ hist.lastId > MaxBatch

\* wake-up events that are buffered (and not being dropped), in the channel, or read
\* by the framework and not yet acknowledged
UndeliveredWakeups ==
    WakeInQueue(mPendingWriteEventsQueue)
      - (IF pwPc = "dropped"
         THEN CountWake(Head(mPendingWriteEventsQueue).events,
                        NumToWritePending(Head(mPendingWriteEventsQueue)))
         ELSE 0)
      + CountWake(mEventQueue, Len(mEventQueue))
      + unacked

\* C2: while the tasks run and the wake-lock timeout has not fired, an undelivered
\* wake-up event implies refCount > 0 and the OS wake lock held.
C2_HeldWhileUndelivered ==
    (mThreadsRun /\ clPc = "idle" /\ ~hist.timeoutFired /\ UndeliveredWakeups > 0)
        => (mWakelockRefCount > 0 /\ wakeLockHeld)

C4_ShutdownCompletes == (clPc = "wake") ~> ThreadsJoined

\* C5: a post whose remainder does not fit the pending queue lowers refCount by the
\* number of wake-up events among the dropped events.
C5_OverflowUncounted ==
    [][ \A p \in Producers :
          LET events == prod[p].events
              numToWrite == NumToWriteDirect(mPendingWriteEventsQueue, Len(events),
                                             AvailableToWrite)
              dropped == EventsLeft(events, numToWrite)
          IN  (IsPostWrite(p) /\ mThreadsRun /\ numToWrite < Len(events)
                 /\ ~FitsPendingQueue(Len(events), numToWrite))
                 => mWakelockRefCount' =
                        mWakelockRefCount
                          - Min(mWakelockRefCount, CountWake(dropped, Len(dropped)))
      ]_vars

\* C6: the buffered event count never exceeds the maximum.
C6_SizeBounded == mSizePendingWriteEventsQueue <= kMaxSizePendingWriteEventsQueue

\* C7: a post of N events with nothing pending and room for K < N writes the first K
\* and buffers exactly the other N - K as one batch if they fit; the pending-writes
\* thread writes the first events of the front batch, in order, and removes exactly
\* those from it, so that the batch's events leave in their original order.
C7_PartialWriteThenDrain ==
    [][ /\ \A p \in Producers :
              LET events == prod[p].events
                  N == Len(events)
                  K == AvailableToWrite
              IN  (IsPostWrite(p) /\ mPendingWriteEventsQueue = << >> /\ K < N
                     /\ mSizePendingWriteEventsQueue + (N - K)
                            <= kMaxSizePendingWriteEventsQueue)
                     => /\ mEventQueue' = mEventQueue \o SubSeq(events, 1, K)
                        /\ mPendingWriteEventsQueue' =
                              << [ events |-> SubSeq(events, K + 1, N),
                                   numWakeupEvents |-> prod[p].numWakeupEvents ] >>
                        /\ mSizePendingWriteEventsQueue' =
                              mSizePendingWriteEventsQueue + (N - K)
        /\ (pwPc = "write" /\ pwPc' = "relock")
              => mEventQueue' = mEventQueue \o
                     SubSeq(Head(mPendingWriteEventsQueue).events, 1,
                            Min(Len(Head(mPendingWriteEventsQueue).events), QuantumCount))
        /\ (pwPc = "relock" /\ pwPc' # "relock")
              => LET front == Head(mPendingWriteEventsQueue).events
                     n == Min(Len(front), QuantumCount)
                 IN  IF n < Len(front)
                     THEN /\ Head(mPendingWriteEventsQueue').events
                                = SubSeq(front, n + 1, Len(front))
                          /\ Tail(mPendingWriteEventsQueue')
                                = Tail(mPendingWriteEventsQueue)
                     ELSE mPendingWriteEventsQueue' = Tail(mPendingWriteEventsQueue)
      ]_vars

\* the pending-writes thread has just written the rest of a vector whose first events
\* post wrote at once
C7_Witness ==
    /\ pwPc = "relock"
    /\ Head(mPendingWriteEventsQueue).events[1].idx > 1
    /\ mEventQueue # << >>
    /\ mEventQueue[Len(mEventQueue)].id = Head(mPendingWriteEventsQueue).events[1].id

\* C8: refCount has been raised by the wake-up count of a posted vector before any
\* of its events is written or buffered.
C8_CountedBeforeWrite ==
    \A p \in Producers :
        (prod[p].pc = "write" /\ prod[p].numWakeupEvents > 0) => prod[p].counted

\* C9: a timed-out write lowers refCount by the wake-up events among the dropped
\* events only.
C9_TimeoutDropsOwnWakeups ==
    [][ (pwPc = "write" /\ pwPc' = "dropped" /\ mThreadsRun)
          => LET front == Head(mPendingWriteEventsQueue)
                 droppedWake == CountWake(front.events, NumToWritePending(front))
             IN  mWakelockRefCount' =
                     mWakelockRefCount - Min(mWakelockRefCount, droppedWake)
      ]_vars

\* C10: after resetSharedWakelock in initialize, and after shutdown, refCount is 0 and
\* the OS wake lock is not held.
C10_ResetReleases ==
    (clPc \in { "clearQueue", "clearSize", "restart", "destroyed" })
        => (mWakelockRefCount = 0 /\ ~wakeLockHeld)

\* C11: a decrement whose timeoutStart is earlier than mWakelockTimeoutResetTime changes
\* neither refCount nor the OS wake lock nor the two timestamps.
C11_StaleReleaseIgnored ==
    [][ (wlCall'.op = "release" /\ wlCall'.timeoutStart # -1
           /\ wlCall'.timeoutStart < mWakelockTimeoutResetTime)
          => UNCHANGED << mWakelockRefCount, wakeLockHeld, mWakelockTimeoutStartTime,
                          mWakelockTimeoutResetTime >>
      ]_vars

\* a stale release has just been made with the threads running and the lock held
C11_Witness ==
    /\ wlCall.op = "release"
    /\ wlCall.timeoutStart # -1
    /\ wlCall.timeoutStart < mWakelockTimeoutResetTime
    /\ mThreadsRun
    /\ mWakelockRefCount > 0

C14_AcquireAfterShutdown ==
    [][ (wlCall'.op = "acquire")
          => IF ~mThreadsRun
             THEN /\ ~wlCall'.ok
                  /\ UNCHANGED << mWakelockRefCount, wakeLockHeld,
                                  mWakelockTimeoutStartTime, wlGhost >>
             ELSE /\ wlCall'.ok
                  /\ mWakelockRefCount' = mWakelockRefCount + wlCall'.delta
                  /\ mWakelockTimeoutStartTime' = now
                  /\ wakeLockHeld' = (wakeLockHeld \/ mWakelockRefCount = 0)
                  /\ wlGhost'.osAcquires =
                        wlGhost.osAcquires + (IF mWakelockRefCount = 0 THEN 1 ELSE 0)
      ]_vars

\* an increment has just failed with the stop flag set and the lock held
C14_Witness ==
    /\ wlCall.op = "acquire"
    /\ ~wlCall.ok
    /\ ~mThreadsRun
    /\ mWakelockRefCount > 0

\* C13: with the threads running, a refCount > 0 whose timeout has expired does not
\* stay: the wake-lock thread brings refCount to 0 and releases the lock, unless an
\* acknowledgement does so first, a new increment restarts the timeout or the threads
\* are stopped.
C13_TimeoutForcesRelease ==
    (mThreadsRun /\ mWakelockRefCount > 0
       /\ now - mWakelockTimeoutStartTime > kWakelockTimeoutNs)
      ~> \/ (mWakelockRefCount = 0 /\ ~wakeLockHeld)
         \/ ~mThreadsRun
         \/ now - mWakelockTimeoutStartTime <= kWakelockTimeoutNs

\* the wake-lock thread has reset the count after a timeout, nothing acknowledged
C13_Witness ==
    /\ hist.timeoutFired
    /\ mThreadsRun
    /\ mWakelockRefCount = 0
    /\ ~wakeLockHeld
    /\ unacked = 0
    /\ mWakeLockQueue = << >>
    /\ hist.posts > 0

\* C15: with the stop flag set, no step of postEvents writes to the output channel,
\* pushes onto the pending queue or changes the buffered count or refCount.
C15_PostAfterShutdownNoOp ==
    [][ (~mThreadsRun
           /\ \E p \in Producers : prod[p].pc \in { "lock", "write" }
                                      /\ prod'[p].pc # prod[p].pc)
          => UNCHANGED << mEventQueue, mPendingWriteEventsQueue,
                          mSizePendingWriteEventsQueue, mWakelockRefCount >>
      ]_vars

\* C16: for a sub-HAL index 0..255 and a handle whose sub-HAL byte is 0,
\* extractSubHalIndex(setSubHalIndex(h, i)) = i and
\* clearSubHalIndex(setSubHalIndex(h, i)) = h.
C16_StampRoundTrip ==
    (hnd.pc = "done")
      => /\ hnd.extracted = hnd.subHalIndex
         /\ hnd.cleared = hnd.sensorHandle

\* the sub-HAL byte of the handle of the last call, as the index the handle names
RetIndex == TopByte(ret'.sensorHandle)

\* the last call was forwarded once, to the sub-HAL the handle names, with the
\* sub-HAL byte cleared, and returned that sub-HAL's result
ForwardedOnce ==
    /\ Len(subHalCalls') = 1
    /\ subHalCalls'[1].subHal = RetIndex
    /\ subHalCalls'[1].op = ret'.op
    /\ TopByte(subHalCalls'[1].sensorHandle) = 0
    /\ LowBits(subHalCalls'[1].sensorHandle) = LowBits(ret'.sensorHandle)
    /\ ret'.result = subHalCalls'[1].result

\* the last call returned BAD_VALUE and called no sub-HAL
RejectedUnforwarded == ret'.result = "BAD_VALUE" /\ subHalCalls' = << >>

\* C17 as stated: activate, batch, flush and injectSensorData return BAD_VALUE without
\* calling a sub-HAL when the handle's index is not below the number of sub-HALs, and
\* otherwise forward once to the sub-HAL of that index with the cleared handle and
\* return its result.
C17_RoutedOrRejected ==
    [][ (ret'.op \in { "activate", "batch", "flush", "injectSensorData" })
          => IF RetIndex >= NumSubHals THEN RejectedUnforwarded ELSE ForwardedOnce
      ]_vars

\* the position in the log of the first call a sub-HAL did not answer with OK, 0 if
\* every call was answered with OK
FirstFailedCall ==
    LET failed == { j \in 1 .. Len(subHalCalls') : subHalCalls'[j].result # "OK" }
    IN  IF failed = { } THEN 0
        ELSE CHOOSE j \in failed : \A k \in failed : j <= k

\* C18: setOperationMode is transactional. If a sub-HAL rejects the mode, the call
\* returns that sub-HAL's result, the sub-HALs that had accepted the mode are back in
\* the mode they had before the call and mCurrentOperationMode is unchanged; if all
\* accept, the call returns OK and mCurrentOperationMode is the new mode. After the
\* call no two sub-HALs are in different modes.
C18_SetOperationModeTransactional ==
    [][ (ret'.op = "setOperationMode")
          => /\ IF FirstFailedCall # 0
                THEN /\ ret'.result = subHalCalls'[FirstFailedCall].result
                     /\ \A j \in 1 .. FirstFailedCall - 1 :
                          subHalMode'[subHalCalls'[j].subHal]
                            = subHalMode[subHalCalls'[j].subHal]
                     /\ mCurrentOperationMode' = mCurrentOperationMode
                ELSE /\ ret'.result = "OK"
                     /\ mCurrentOperationMode' = ret'.mode
             /\ \A i, j \in DOMAIN subHalMode : subHalMode'[i] = subHalMode'[j]
      ]_vars

\* the sensors sub-HAL i reported whose sub-HAL byte is 0
CleanSensors(i) ==
    { k \in DOMAIN mSubHalList[i].sensors :
        TopByte(mSubHalList[i].sensors[k].sensorHandle) = 0 }

\* the constructor has run
Constructed == ret.op # "none"

\* C19: after init() every sensor reported with a handle whose sub-HAL byte is 0 is
\* in mSensors under the handle with the sub-HAL's index in the sub-HAL byte, equal
\* handles of different sub-HALs have different keys, every key passes
\* isSubHalIndexValid and leads to the sub-HAL that reported the sensor, and a sensor
\* reported with a set sub-HAL byte is not in mSensors.
C19_MergedSensorList ==
    Constructed
      => /\ \A i \in DOMAIN mSubHalList : \A k \in CleanSensors(i) :
              LET h == mSubHalList[i].sensors[k].sensorHandle
                  key == Int32FromParts(i, LowBits(h))
              IN  /\ key \in DOMAIN mSensors
                  /\ mSensors[key].reportedBy = i
                  /\ mSensors[key].reportedAs = h
         /\ Cardinality(DOMAIN mSensors)
              = Cardinality({ ik \in (DOMAIN mSubHalList) \X (1 .. MaxSensors) :
                                ik[2] \in CleanSensors(ik[1]) })
         /\ \A key \in DOMAIN mSensors :
              /\ isSubHalIndexValid(key)
              /\ extractSubHalIndex(key) = mSensors[key].reportedBy
              /\ TopByte(mSensors[key].reportedAs) = 0

\* the sub-HALs that reported a sensor with direct-channel flags
AdvertisingSubHals ==
    { i \in DOMAIN mSubHalList :
        \E k \in DOMAIN mSubHalList[i].sensors : mSubHalList[i].sensors[k].direct }

\* the sub-HALs that reported a sensor with direct-channel flags and a handle whose
\* sub-HAL byte is 0
AdvertisingInList ==
    { i \in DOMAIN mSubHalList :
        \E k \in CleanSensors(i) : mSubHalList[i].sensors[k].direct }

\* the least sub-HAL of S, -1 if there is none
FirstOf(S) == IF S = { } THEN -1 ELSE CHOOSE i \in S : \A j \in S : i <= j

\* C20 as stated: after init() mDirectChannelSubHal is the first sub-HAL that reported
\* a sensor with direct-channel flags (none if there is no such sub-HAL), and every
\* entry of mSensors that still has the flags is of that sub-HAL.
C20_FirstAdvertisingSubHal ==
    Constructed
      => /\ mDirectChannelSubHal = FirstOf(AdvertisingSubHals)
         /\ \A key \in DOMAIN mSensors :
              mSensors[key].direct => mSensors[key].reportedBy = mDirectChannelSubHal

\* C20 amended: after init() mDirectChannelSubHal is the first sub-HAL that reported a
\* sensor with direct-channel flags and a handle whose sub-HAL byte is 0, that is, a
\* sensor that is in mSensors (none if there is no such sub-HAL), and every entry of
\* mSensors that still has the flags is of that sub-HAL.
C20_FirstAdvertisingInList ==
    Constructed
      => /\ mDirectChannelSubHal = FirstOf(AdvertisingInList)
         /\ \A key \in DOMAIN mSensors :
              mSensors[key].direct => mSensors[key].reportedBy = mDirectChannelSubHal

\* sub-HAL 0 is the direct-channel sub-HAL, and a sensor that sub-HAL 1 reported with
\* the flags is in mSensors without them
C20_Witness ==
    /\ Constructed
    /\ mDirectChannelSubHal = 0
    /\ \E key \in DOMAIN mSensors :
         /\ mSensors[key].reportedBy = 1
         /\ ~mSensors[key].direct
         /\ \E k \in CleanSensors(1) :
              /\ mSubHalList[1].sensors[k].sensorHandle = mSensors[key].reportedAs
              /\ mSubHalList[1].sensors[k].direct

DirectChannelOps == { "registerDirectChannel", "unregisterDirectChannel", "configDirectReport" }

\* C21: registerDirectChannel, unregisterDirectChannel and configDirectReport call
\* mDirectChannelSubHal once, call no other sub-HAL and return what it answers; when
\* mDirectChannelSubHal is nullptr they return INVALID_OPERATION and call no sub-HAL.
C21_DirectChannelRouting ==
    [][ (ret'.op \in DirectChannelOps)
          => IF mDirectChannelSubHal = -1
             THEN ret'.result = "INVALID_OPERATION" /\ subHalCalls' = << >>
             ELSE /\ Len(subHalCalls') = 1
                  /\ subHalCalls'[1].subHal = mDirectChannelSubHal
                  /\ subHalCalls'[1].op = ret'.op
                  /\ ret'.result = subHalCalls'[1].result
      ]_vars

\* configDirectReport for a handle of sub-HAL 0 has gone to sub-HAL 1, the
\* direct-channel sub-HAL
C21_Witness ==
    /\ ret.op = "configDirectReport"
    /\ TopByte(ret.sensorHandle) = 0
    /\ mDirectChannelSubHal = 1
    /\ Len(subHalCalls) = 1
    /\ subHalCalls[1].subHal = 1
    /\ ret.result = "BAD_VALUE"

\* C22: an event whose post began before initialize was called is neither written to
\* the new event FMQ nor put in the pending queue after initialize has returned.
C22_NoStaleEventsAfterInitialize ==
    [][ \A p \in Producers :
          (IsPostWrite(p) /\ prod[p].gen < hist.inits)
            => /\ mEventQueue' = mEventQueue
               /\ mPendingWriteEventsQueue' = mPendingWriteEventsQueue
      ]_vars

\* the client operations that are passed on to sub-HALs
ForwardingOps == { "activate", "batch", "flush", "injectSensorData", "setOperationMode" }

\* C23: a client operation called before initialize has been called returns a failure
\* at once and calls no sub-HAL.
C23_InvalidStateBeforeInitialize ==
    [][ (ret.op = "none" /\ ret'.op \in ForwardingOps)
          => ret'.result # "OK" /\ subHalCalls' = << >>
      ]_vars

\* the handle h with sub-HAL index i in its sub-HAL byte
Stamped(h, i) == Int32FromParts(i, LowBits(h))

\* the positions of the vector of the last notification whose handle has a sub-HAL
\* byte of 0 (the elements are descriptors for a connection, handles otherwise)
CleanArgs ==
    { k \in DOMAIN ret'.args :
        TopByte(IF ret'.op = "onDynamicSensorsConnected"
                THEN ret'.args[k].sensorHandle ELSE ret'.args[k]) = 0 }

\* the keys the last notification is about
ArgKeys ==
    { Stamped(IF ret'.op = "onDynamicSensorsConnected"
              THEN ret'.args[k].sensorHandle ELSE ret'.args[k], ret'.subHalIndex) :
        k \in CleanArgs }

\* the local handles of a vector of descriptors or of handles
LocalHandlesOf(op, args) ==
    { IF op = "onDynamicSensorsConnected" THEN args[k].sensorHandle ELSE args[k] :
        k \in DOMAIN args }

\* onDynamicSensorsConnected stores each descriptor with a clear sub-HAL byte under
\* the stamped handle and forwards exactly those, stamped, in their order
ConnectedAsClaimed ==
    (ret'.op = "onDynamicSensorsConnected")
      => /\ DOMAIN mDynamicSensors' = DOMAIN mDynamicSensors \cup ArgKeys
         /\ \A key \in DOMAIN mDynamicSensors \ ArgKeys :
              mDynamicSensors'[key] = mDynamicSensors[key]
         /\ \A key \in ArgKeys :
              /\ mDynamicSensors'[key].sensorHandle = key
              /\ mDynamicSensors'[key].reportedBy = ret'.subHalIndex
         /\ Len(ret'.forwarded) = Cardinality(CleanArgs)
         /\ \A j \in DOMAIN ret'.forwarded :
              \E k \in CleanArgs :
                /\ Cardinality({ c \in CleanArgs : c <= k }) = j
                /\ ret'.forwarded[j].sensorHandle
                     = Stamped(ret'.args[k].sensorHandle, ret'.subHalIndex)

\* onDynamicSensorsDisconnected removes the stamped handles and forwards exactly those
\* that were in mDynamicSensors, each once
DisconnectedAsClaimed ==
    (ret'.op = "onDynamicSensorsDisconnected")
      => /\ DOMAIN mDynamicSensors' = DOMAIN mDynamicSensors \ ArgKeys
         /\ \A key \in DOMAIN mDynamicSensors' :
              mDynamicSensors'[key] = mDynamicSensors[key]
         /\ { ret'.forwarded[j] : j \in DOMAIN ret'.forwarded }
              = ArgKeys \cap DOMAIN mDynamicSensors
         /\ Len(ret'.forwarded) = Cardinality(ArgKeys \cap DOMAIN mDynamicSensors)

\* a disconnection follows the connection of the same handles by the same sub-HAL
DisconnectsLastConnected ==
    /\ ret.op = "onDynamicSensorsConnected"
    /\ ret'.op = "onDynamicSensorsDisconnected"
    /\ ret'.subHalIndex = ret.subHalIndex
    /\ LocalHandlesOf(ret'.op, ret'.args) = LocalHandlesOf(ret.op, ret.args)

\* C24 as stated: connections and disconnections store, remove and forward as above,
\* and connecting then disconnecting the same handles restores mDynamicSensors.
C24_DynamicSensorsRoundTrip ==
    [][ /\ ConnectedAsClaimed
        /\ DisconnectedAsClaimed
        /\ DisconnectsLastConnected => mDynamicSensors' = ret.before
      ]_vars

\* C24 amended: connections and disconnections store, remove and forward as above, and
\* connecting then disconnecting the same handles restores mDynamicSensors when none
\* of the stamped handles was in it before the connection.
C24_DynamicSensorsRoundTripIfNew ==
    [][ /\ ConnectedAsClaimed
        /\ DisconnectedAsClaimed
        /\ (DisconnectsLastConnected /\ ArgKeys \cap DOMAIN ret.before = { })
             => mDynamicSensors' = ret.before
      ]_vars

\* sub-HAL 1 has disconnected the two sensors it had just connected, next to a sensor
\* of sub-HAL 0 that stays
C24_Witness ==
    /\ ret.op = "onDynamicSensorsDisconnected"
    /\ ret.subHalIndex = 1
    /\ Len(ret.forwarded) = 2
    /\ Cardinality(DOMAIN mDynamicSensors) = 1
    /\ \A key \in DOMAIN mDynamicSensors : mDynamicSensors[key].reportedBy = 0

\* the step is initialize assigning mPendingWriteEventsQueue or
\* mSizePendingWriteEventsQueue
IsInitClear == clPc \in { "clearQueue", "clearSize" } /\ clPc' # clPc

\* the step is the pending-writes thread taking the lock again and removing what it
\* wrote or dropped
IsPwRelock == pwPc \in { "relock", "dropped" } /\ pwPc' # pwPc

\* C25: every write of mPendingWriteEventsQueue and of mSizePendingWriteEventsQueue is
\* made by a thread that holds mEventQueueWriteMutex: the posting thread that took it
\* in postEventsToMessageQueue, or the pending-writes thread that takes it in the step.
C25_PendingQueueWrittenUnderLock ==
    [][ (\/ mPendingWriteEventsQueue' # mPendingWriteEventsQueue
         \/ mSizePendingWriteEventsQueue' # mSizePendingWriteEventsQueue
         \/ IsInitClear)
          => \/ \E p \in Producers : IsPostWrite(p) /\ mEventQueueWriteMutex = "prod"
             \/ IsPwRelock /\ mEventQueueWriteMutex = "none" /\ ~IsInitClear
      ]_vars

\* the step in which postEventsToMessageQueue, having taken mEventQueueWriteMutex,
\* calls incrementRefCountAndMaybeAcquireWakelock
IsPostIncrement(p) ==
    /\ prod[p].pc = "lock"
    /\ prod'[p].pc = "write"
    /\ WakelockIsLocked(prod[p].numWakeupEvents)

\* the step in which handlePendingWrites calls decrementRefCountAndMaybeReleaseWakelock
IsPwDecrement ==
    /\ pwPc = "write"
    /\ pwPc' = "dropped"
    /\ WakeupsReleasedOnTimeout(Head(mPendingWriteEventsQueue)) > 0

\* C26: mEventQueueWriteMutex is not held by the thread that calls the wake-lock
\* coordinator, neither by a posting thread when it calls the increment nor by the
\* pending-writes thread when it calls the decrement.
C26_NoQueueLockAcrossWakelockCall ==
    [][ /\ \A p \in Producers : IsPostIncrement(p) => mEventQueueWriteMutex' # "prod"
        /\ IsPwDecrement => mEventQueueWriteMutex # "pw"
      ]_vars

\* C27: mMostEventsObservedPendingWriteEventsQueue never decreases, and in every
\* reachable state it is at least mSizePendingWriteEventsQueue.
C27_HighWaterMark ==
    /\ [][ mMostEventsObservedPendingWriteEventsQueue'
             >= mMostEventsObservedPendingWriteEventsQueue ]_vars
    /\ [](mMostEventsObservedPendingWriteEventsQueue >= mSizePendingWriteEventsQueue)

\* C28: whenever no thread holds mEventQueueWriteMutex, mSizePendingWriteEventsQueue
\* is the sum of the lengths of the batches in mPendingWriteEventsQueue.
C28_SizeIsSumWhenUnlocked ==
    mEventQueueWriteMutex = "none"
        => mSizePendingWriteEventsQueue = SumLen(mPendingWriteEventsQueue)

\* the keys of the merged sensor list, dynamic sensors included
CatalogKeys == DOMAIN mSensors \cup DOMAIN mDynamicSensors

\* C29: an entry of the merged sensor list appears only in init() or in
\* onDynamicSensorsConnected and disappears only in onDynamicSensorsDisconnected;
\* every other step (processEvents, countNumWakeupEvents, getSensorsList among them)
\* leaves mSensors and mDynamicSensors as they are.
C29_CatalogFrame ==
    [][ /\ (CatalogKeys' \ CatalogKeys # { })
             => ret'.op \in { "init", "onDynamicSensorsConnected" }
        /\ (CatalogKeys \ CatalogKeys' # { })
             => ret'.op = "onDynamicSensorsDisconnected"
        /\ (ret'.op \notin { "init", "onDynamicSensorsConnected",
                             "onDynamicSensorsDisconnected" })
             => mSensors' = mSensors /\ mDynamicSensors' = mDynamicSensors
      ]_vars

\* the step in which handlePendingWrites makes its call of writeBlocking, be it
\* written or timed out
IsPwWrite == pwPc = "write" /\ pwPc' \in { "relock", "dropped" }

\* C30: the pending-writes thread calls writeBlocking only while mThreadsRun is
\* still true.
C30_NoWriteAfterStop == [][ IsPwWrite => mThreadsRun ]_vars

\* C31: while the threads run, a pending queue that is not empty becomes empty (or
\* the threads are stopped first), whether or not the framework reads the event queue.
C31_PendingQueueDrains ==
    (mThreadsRun /\ mPendingWriteEventsQueue # << >>)
        ~> (mPendingWriteEventsQueue = << >> \/ ~mThreadsRun)

\* a batch was dropped after the write timed out, the framework not having read, and
\* the pending queue is empty again
C31_Witness ==
    /\ mThreadsRun
    /\ pwPc = "dropped"
    /\ Len(mPendingWriteEventsQueue) = 1
    /\ Len(Head(mPendingWriteEventsQueue).events) <= QuantumCount

\* the step in which handleWakelocks, having read an acknowledgement, takes the mutex
\* again and calls decrementRefCountAndMaybeReleaseWakelock
IsWlAcknowledged == wlPc = "relock" /\ wlPc' # wlPc /\ wlLocal.success

\* mWakelockRefCount after an acknowledgement of n with std::min
AfterAcknowledgement(n) == mWakelockRefCount - Min(mWakelockRefCount, n)

\* C32: an acknowledgement of n read while the threads run lowers mWakelockRefCount by
\* min(mWakelockRefCount, n), never below 0, and the OS wake lock is released exactly
\* when the count is 0 afterwards (the timeout test of the same locked section may
\* then still reset a count that stayed positive).
C32_AcknowledgementDecrements ==
    [][ (IsWlAcknowledged /\ mThreadsRun)
          => /\ \/ mWakelockRefCount' = AfterAcknowledgement(wlLocal.numWakeLocksProcessed)
                \/ /\ mWakelockRefCount' = 0
                   /\ now - mWakelockTimeoutStartTime > kWakelockTimeoutNs
             /\ mWakelockRefCount' >= 0
             /\ wakeLockHeld' <=> (mWakelockRefCount' > 0)
             /\ wakeLockHeld /\ ~wakeLockHeld' => mWakelockRefCount' = 0
      ]_vars

\* an acknowledgement of more events than are counted is about to be applied
C32_Witness ==
    /\ wlPc = "relock"
    /\ wlLocal.success
    /\ mThreadsRun
    /\ mWakelockRefCount > 0
    /\ wlLocal.numWakeLocksProcessed > mWakelockRefCount

C34_BufferAllOrNothing ==
    [][ \A p \in Producers :
          LET events == prod[p].events
              numToWrite == NumToWriteDirect(mPendingWriteEventsQueue, Len(events),
                                             AvailableToWrite)
              numLeft == Len(events) - numToWrite
          IN  (IsPostWrite(p) /\ numLeft > 0)
                => IF mSizePendingWriteEventsQueue + numLeft
                        > kMaxSizePendingWriteEventsQueue
                   THEN UNCHANGED << mPendingWriteEventsQueue,
                                     mSizePendingWriteEventsQueue,
                                     mMostEventsObservedPendingWriteEventsQueue,
                                     mWakelockRefCount >>
                   ELSE /\ mPendingWriteEventsQueue' =
                              Append(mPendingWriteEventsQueue,
                                     [ events |-> SubSeq(events, numToWrite + 1,
                                                         Len(events)),
                                       numWakeupEvents |-> prod[p].numWakeupEvents ])
                        /\ mSizePendingWriteEventsQueue' =
                              mSizePendingWriteEventsQueue + numLeft
      ]_vars

\* C35: an iteration of the pending-writes thread, after a write as after a timeout,
\* takes numToWrite = min(size of the front batch, eventQueueSize) events from the
\* front of the front batch and subtracts numToWrite from the count (in size_t); the
\* batch is popped only if it was no longer than eventQueueSize, otherwise its other
\* events stay at the front, in order, with the stored numWakeupEvents.
C35_DrainRemovesNumToWrite ==
    [][ IsPwRelock =>
          LET front == Head(mPendingWriteEventsQueue)
              size == Len(front.events)
              numToWrite == Min(size, QuantumCount)
          IN  /\ mSizePendingWriteEventsQueue' =
                    (mSizePendingWriteEventsQueue - numToWrite) % SizeTModulus
              /\ IF size <= QuantumCount
                 THEN mPendingWriteEventsQueue' = Tail(mPendingWriteEventsQueue)
                 ELSE /\ Len(mPendingWriteEventsQueue') = Len(mPendingWriteEventsQueue)
                      /\ Head(mPendingWriteEventsQueue').events =
                            SubSeq(front.events, numToWrite + 1, size)
                      /\ Head(mPendingWriteEventsQueue').numWakeupEvents =
                            front.numWakeupEvents
                      /\ Tail(mPendingWriteEventsQueue') = Tail(mPendingWriteEventsQueue)
      ]_vars

\* the write of a front batch longer than eventQueueSize, holding wake-up events, has
\* timed out
C35_Witness ==
    /\ pwPc = "dropped"
    /\ Len(Head(mPendingWriteEventsQueue).events) > QuantumCount
    /\ Head(mPendingWriteEventsQueue).numWakeupEvents > 0

\* C36: when handleWakelocks, with the threads running, releases the OS wake lock
\* otherwise than by an acknowledgement that brings the count to 0, more than
\* kWakelockTimeoutNs has passed since mWakelockTimeoutStartTime, the time of the
\* latest increment.
C36_ResetOnlyAfterTimeout ==
    [][ ( /\ wlPc \in { "start", "woken", "relock" }
          /\ wlPc' # wlPc
          /\ mThreadsRun
          /\ wakeLockHeld /\ ~wakeLockHeld'
          /\ ~ ( /\ wlPc = "relock"
                 /\ wlLocal.success
                 /\ AfterAcknowledgement(wlLocal.numWakeLocksProcessed) = 0 ) )
          => now - mWakelockTimeoutStartTime > kWakelockTimeoutNs
      ]_vars

\* handleWakelocks is blocked in readBlocking with a deadline taken from an earlier
\* increment, and an increment made since has restarted the timeout
C36_Witness ==
    /\ wlPc = "read"
    /\ mThreadsRun
    /\ mWakelockRefCount > 0
    /\ wlLocal.deadline < mWakelockTimeoutStartTime + kWakelockTimeoutNs

C38_InitializeLeavesQueueEmpty ==
    [][ (clPc = "restart" /\ clPc' = "idle")
          => /\ mThreadsRun'
             /\ pwPc' = "start" /\ wlPc' = "start"
             /\ mPendingWriteEventsQueue' = << >>
      ]_vars

\* C39 as stated: configDirectReport, whatever sub-HAL byte the handle has, calls
\* mDirectChannelSubHal (if there is one) with the sub-HAL byte cleared, and its result
\* is never BAD_VALUE.
C39_ConfigDirectReportNeverBadValue ==
    [][ (ret'.op = "configDirectReport")
          => /\ mDirectChannelSubHal # -1
                  => /\ Len(subHalCalls') = 1
                     /\ subHalCalls'[1].subHal = mDirectChannelSubHal
                     /\ subHalCalls'[1].sensorHandle = LowBits(ret'.sensorHandle)
             /\ ret'.result # "BAD_VALUE"
      ]_vars

\* C39: configDirectReport, whatever sub-HAL byte the handle has, calls
\* mDirectChannelSubHal (if there is one) with the sub-HAL byte cleared, and its result
\* is BAD_VALUE only when that is the answer of mDirectChannelSubHal.
C39_ConfigDirectReportUnvalidated ==
    [][ (ret'.op = "configDirectReport")
          => /\ mDirectChannelSubHal # -1
                  => /\ Len(subHalCalls') = 1
                     /\ subHalCalls'[1].subHal = mDirectChannelSubHal
                     /\ subHalCalls'[1].sensorHandle = LowBits(ret'.sensorHandle)
             /\ ret'.result = "BAD_VALUE"
                  => /\ mDirectChannelSubHal # -1
                     /\ subHalCalls'[1].result = "BAD_VALUE"
      ]_vars

\* configDirectReport for a handle whose sub-HAL byte is beyond the list has gone to
\* the only sub-HAL, with the byte cleared
C39_Witness ==
    /\ ret.op = "configDirectReport"
    /\ NumSubHals = 1
    /\ TopByte(ret.sensorHandle) = 1
    /\ mDirectChannelSubHal = 0
    /\ Len(subHalCalls) = 1
    /\ subHalCalls[1].sensorHandle = 1
    /\ ret.result = "OK"


\* the kind of the last of the notifications upstream[1 .. n] that names sensorHandle
RECURSIVE LastNotified(_, _, _)
LastNotified(upstream, n, sensorHandle) ==
    IF n = 0
    THEN "none"
    ELSE IF \E k \in DOMAIN upstream[n].handles : upstream[n].handles[k] = sensorHandle
         THEN upstream[n].op
         ELSE LastNotified(upstream, n - 1, sensorHandle)

\* C40: the notifications reach the upstream callback in the order in which their
\* catalog updates were applied under mDynamicSensorsMutex, and once every callback
\* has returned, the last notification about a handle agrees with mDynamicSensors:
\* "connected" exactly for the handles in the map.
C40_ForwardedInCatalogOrder ==
    /\ \A j, k \in DOMAIN cb.upstream :
          j < k => cb.upstream[j].seq < cb.upstream[k].seq
    /\ (\A t \in CallbackThreads : cb.threads[t].pc = "idle") =>
          \A i \in DOMAIN mSubHalList, h \in ReportedHandles :
             LET sensorHandle == setSubHalIndex(h, i)
                 last == LastNotified(cb.upstream, Len(cb.upstream), sensorHandle)
             IN  (sensorHandle \in DOMAIN mDynamicSensors) <=> (last = "connected")

====
